---- MODULE Spec2Model ----
EXTENDS Integers, Sequences, FiniteSets, TLC

\* ------------------------------------------------------------ naturals
\* Python's float is IEEE-754 binary64.  Its 53-bit mantissas, and the
\* longer integers the operations round from, are held as sequences of
\* limbs, least significant first, without high zero limbs: <<>> is zero.

W == 13

B == 8192

Limbs == Seq(Nat)

Min(a, b) == IF a < b THEN a ELSE b

Max(a, b) == IF a > b THEN a ELSE b

Limb(a, i) == IF i >= 1 /\ i <= Len(a) THEN a[i] ELSE 0

Zeros(n) == [i \in 1..n |-> 0]

NatTrim[a \in Limbs] ==
  IF a = <<>> THEN a
  ELSE IF a[Len(a)] # 0 THEN a
  ELSE NatTrim[SubSeq(a, 1, Len(a) - 1)]

LimbBits[x \in Nat] == IF x = 0 THEN 0 ELSE 1 + LimbBits[x \div 2]

BitLen[a \in Limbs] ==
  IF a = <<>> THEN 0 ELSE W * (Len(a) - 1) + LimbBits[a[Len(a)]]

NatOfInt[n \in Nat] ==
  IF n = 0 THEN <<>> ELSE <<n % B>> \o NatOfInt[n \div B]

IntOfNat[a \in Limbs] ==
  IF a = <<>> THEN 0 ELSE a[1] + B * IntOfNat[Tail(a)]

CmpFrom[a \in Limbs, b \in Limbs, i \in Nat] ==
  IF i = 0 THEN 0
  ELSE IF a[i] < b[i] THEN -1
  ELSE IF a[i] > b[i] THEN 1
  ELSE CmpFrom[a, b, i - 1]

\* -1, 0 or 1 as a < b, a = b or a > b.
NatCmp[a \in Limbs, b \in Limbs] ==
  IF Len(a) < Len(b) THEN -1
  ELSE IF Len(a) > Len(b) THEN 1
  ELSE CmpFrom[a, b, Len(a)]

AddCarry[a \in Limbs, b \in Limbs, i \in Nat, c \in Nat, acc \in Limbs] ==
  IF i > Len(a) /\ i > Len(b) THEN (IF c = 0 THEN acc ELSE Append(acc, c))
  ELSE AddCarry[a, b, i + 1, (Limb(a, i) + Limb(b, i) + c) \div B,
                Append(acc, (Limb(a, i) + Limb(b, i) + c) % B)]

NatAdd[a \in Limbs, b \in Limbs] == AddCarry[a, b, 1, 0, <<>>]

SubBorrow[a \in Limbs, b \in Limbs, i \in Nat, c \in Nat, acc \in Limbs] ==
  IF i > Len(a) THEN acc
  ELSE SubBorrow[a, b, i + 1,
                 IF a[i] - Limb(b, i) - c < 0 THEN 1 ELSE 0,
                 Append(acc, (a[i] - Limb(b, i) - c) % B)]

\* a - b for a >= b.
NatSub[a \in Limbs, b \in Limbs] == NatTrim[SubBorrow[a, b, 1, 0, <<>>]]

SmallCarry[a \in Limbs, k \in Nat, i \in Nat, c \in Nat, acc \in Limbs] ==
  IF i > Len(a) THEN (IF c = 0 THEN acc ELSE Append(acc, c))
  ELSE SmallCarry[a, k, i + 1, (a[i] * k + c) \div B,
                  Append(acc, (a[i] * k + c) % B)]

\* a * k for a factor k of one limb.
MulSmall[a \in Limbs, k \in Nat] ==
  IF k = 0 THEN <<>> ELSE SmallCarry[a, k, 1, 0, <<>>]

SmallRem[a \in Limbs, d \in Nat, i \in Nat, r \in Nat, acc \in Limbs] ==
  IF i = 0 THEN acc
  ELSE SmallRem[a, d, i - 1, (r * B + a[i]) % d,
                <<(r * B + a[i]) \div d>> \o acc]

\* a \div d for a divisor d of one limb.
DivSmall[a \in Limbs, d \in Nat] ==
  NatTrim[SmallRem[a, d, Len(a), 0, <<>>]]

ColSum[a \in Limbs, b \in Limbs, k \in Nat, i \in Nat, acc \in Nat] ==
  IF i > Len(a) \/ i > k THEN acc
  ELSE ColSum[a, b, k, i + 1, acc + a[i] * Limb(b, k + 1 - i)]

Carry[c \in Limbs, i \in Nat, cy \in Nat, acc \in Limbs] ==
  IF i > Len(c) THEN (IF cy = 0 THEN acc ELSE Append(acc, cy))
  ELSE Carry[c, i + 1, (c[i] + cy) \div B, Append(acc, (c[i] + cy) % B)]

NatMul[a \in Limbs, b \in Limbs] ==
  IF a = <<>> \/ b = <<>> THEN <<>>
  ELSE Carry[[k \in 1..(Len(a) + Len(b) - 1) |-> ColSum[a, b, k, 1, 0]],
             1, 0, <<>>]

ShiftLeft[a \in Limbs, n \in Nat] ==
  IF a = <<>> THEN a ELSE Zeros(n \div W) \o MulSmall[a, 2 ^ (n % W)]

ShiftRight[a \in Limbs, n \in Nat] ==
  IF n \div W >= Len(a) THEN <<>>
  ELSE DivSmall[SubSeq(a, n \div W + 1, Len(a)), 2 ^ (n % W)]

\* Bit n of a, counted from 0.
TestBit[a \in Limbs, n \in Nat] ==
  (Limb(a, n \div W + 1) \div 2 ^ (n % W)) % 2 = 1

\* The n low bits of a are all zero.
LowBitsZero[a \in Limbs, n \in Nat] ==
  /\ \A i \in 1..Min(n \div W, Len(a)) : a[i] = 0
  /\ Limb(a, n \div W + 1) % 2 ^ (n % W) = 0

\* One digit of the long division: the estimate from the two high limbs
\* of the remainder is at most two too high for a divisor whose high limb
\* is at least B/2.
QEst[r \in Limbs, d \in Limbs] ==
  Min(B - 1, (Limb(r, Len(d) + 1) * B + Limb(r, Len(d))) \div d[Len(d)])

QFix[r \in Limbs, d \in Limbs, q \in Nat, p \in Limbs] ==
  IF NatCmp[p, r] = 1 THEN QFix[r, d, q - 1, NatSub[p, d]]
  ELSE <<q, NatSub[r, p]>>

QDigit[r \in Limbs, d \in Limbs] ==
  QFix[r, d, QEst[r, d], MulSmall[d, QEst[r, d]]]

QRem == Nat \X Limbs

DivStep[a \in Limbs, d \in Limbs, i \in Nat, qr \in QRem, q \in Limbs] ==
  IF i = 1 THEN <<NatTrim[<<qr[1]>> \o q], qr[2]>>
  ELSE DivStep[a, d, i - 1, QDigit[NatTrim[<<a[i - 1]>> \o qr[2]], d],
               <<qr[1]>> \o q]

DivLoop[a \in Limbs, d \in Limbs] ==
  IF a = <<>> THEN <<a, a>>
  ELSE DivStep[a, d, Len(a), QDigit[<<a[Len(a)]>>, d], <<>>]

DivNorm[d \in Limbs] == W - LimbBits[d[Len(d)]]

DivUnnorm[qr \in Limbs \X Limbs, n \in Nat] == <<qr[1], ShiftRight[qr[2], n]>>

\* <<a \div d, a % d>> for d # 0.
NatDivMod[a \in Limbs, d \in Limbs] ==
  DivUnnorm[DivLoop[ShiftLeft[a, DivNorm[d]], ShiftLeft[d, DivNorm[d]]],
            DivNorm[d]]

\* ------------------------------------------------------------ binary64
\* A float is a kind, a sign bit and, when finite, the value m * 2^e with
\* 2^52 <= m < 2^53 (normal), or m < 2^52 and e = -1074 (subnormal), or
\* m = 0 and e = 0 (the two zeros).

Kinds == {"fin", "inf", "nan"}

Float == [k : Kinds, s : 0..1, e : Int, m : Limbs]

NaN == [k |-> "nan", s |-> 0, e |-> 0, m |-> <<>>]

Inf(s) == [k |-> "inf", s |-> s, e |-> 0, m |-> <<>>]

Zero(s) == [k |-> "fin", s |-> s, e |-> 0, m |-> <<>>]

Fin(s, e, m) == [k |-> "fin", s |-> s, e |-> e, m |-> m]

IsNan(x) == x.k = "nan"

IsInf(x) == x.k = "inf"

IsZero(x) == x.k = "fin" /\ x.m = <<>>

\* Bits to drop from M * 2^e to leave 53, or fewer below the least
\* exponent.
RoundShift[M \in Limbs, e \in Int] == Max(BitLen[M] - 53, -1074 - e)

\* Round to nearest, ties to even: up when the first dropped bit is set
\* and a later one is, or the kept part is odd.
RoundUp[M \in Limbs, sh \in Nat, sticky \in BOOLEAN] ==
  /\ TestBit[M, sh - 1]
  /\ (sticky \/ ~LowBitsZero[M, sh - 1] \/ TestBit[M, sh])

RoundCut[M \in Limbs, sh \in Int, sticky \in BOOLEAN] ==
  IF sh <= 0 THEN ShiftLeft[M, -sh]
  ELSE NatAdd[ShiftRight[M, sh],
              IF RoundUp[M, sh, sticky] THEN <<1>> ELSE <<>>]

Pack[s \in 0..1, q \in Limbs, e \in Int] ==
  IF q = <<>> THEN Zero(s)
  ELSE IF BitLen[q] = 54 THEN Pack[s, ShiftRight[q, 1], e + 1]
  ELSE IF e > 971 THEN Inf(s)
  ELSE Fin(s, e, q)

\* The float nearest to (-1)^s * M * 2^e; sticky says that the exact value
\* is a little above M * 2^e.
RoundAt[s \in 0..1, M \in Limbs, e \in Int, sh \in Int, sticky \in BOOLEAN] ==
  Pack[s, RoundCut[M, sh, sticky], e + sh]

Round[s \in 0..1, M \in Limbs, e \in Int, sticky \in BOOLEAN] ==
  IF M = <<>> THEN Zero(s) ELSE RoundAt[s, M, e, RoundShift[M, e], sticky]

Neg[a \in Float] == IF IsNan(a) THEN a ELSE [a EXCEPT !.s = 1 - a.s]

Fabs[a \in Float] == IF IsNan(a) THEN a ELSE [a EXCEPT !.s = 0]

Mul[a \in Float, b \in Float] ==
  IF IsNan(a) \/ IsNan(b) THEN NaN
  ELSE IF IsInf(a) \/ IsInf(b)
  THEN (IF IsZero(a) \/ IsZero(b) THEN NaN ELSE Inf((a.s + b.s) % 2))
  ELSE Round[(a.s + b.s) % 2, NatMul[a.m, b.m], a.e + b.e, FALSE]

DivShift[a \in Float, b \in Float] == 56 + BitLen[b.m] - BitLen[a.m]

DivRound[s \in 0..1, qr \in Limbs \X Limbs, e \in Int] ==
  Round[s, qr[1], e, qr[2] # <<>>]

\* Division as C has it (x/0 is an infinity or NaN).
Div[a \in Float, b \in Float] ==
  IF IsNan(a) \/ IsNan(b) THEN NaN
  ELSE IF IsInf(a) THEN (IF IsInf(b) THEN NaN ELSE Inf((a.s + b.s) % 2))
  ELSE IF IsInf(b) THEN Zero((a.s + b.s) % 2)
  ELSE IF IsZero(b)
  THEN (IF IsZero(a) THEN NaN ELSE Inf((a.s + b.s) % 2))
  ELSE IF IsZero(a) THEN Zero((a.s + b.s) % 2)
  ELSE DivRound[(a.s + b.s) % 2,
                NatDivMod[ShiftLeft[a.m, DivShift[a, b]], b.m],
                a.e - b.e - DivShift[a, b]]

\* Python's x / y: ZeroDivisionError for y = 0, so no value there.
TrueDiv[a \in Float, b \in Float] == CASE ~IsZero(b) -> Div[a, b]

\* The sign and the magnitude of (-1)^sa A + (-1)^sb C, c being A against C
\* (-1, 0 or 1); an exact zero of a difference is +0.
AddSign[sa, sb \in 0..1, c \in Int] ==
  IF sa = sb \/ c = 1 THEN sa ELSE IF c = 0 THEN 0 ELSE sb

AddMag[sa, sb \in 0..1, A \in Limbs, C \in Limbs, c \in Int] ==
  IF sa = sb THEN NatAdd[A, C]
  ELSE NatSub[IF c >= 0 THEN A ELSE C, IF c >= 0 THEN C ELSE A]

AddCmp[sa, sb \in 0..1, A \in Limbs, C \in Limbs, e \in Int, c \in Int] ==
  Round[AddSign[sa, sb, c], AddMag[sa, sb, A, C, c], e, FALSE]

\* (-1)^sa A 2^e + (-1)^sb C 2^e rounded.
AddAligned[sa, sb \in 0..1, A \in Limbs, C \in Limbs, e \in Int] ==
  AddCmp[sa, sb, A, C, e, NatCmp[A, C]]

Add[a \in Float, b \in Float] ==
  IF IsNan(a) \/ IsNan(b) THEN NaN
  ELSE IF IsInf(a) THEN (IF IsInf(b) /\ a.s # b.s THEN NaN ELSE a)
  ELSE IF IsInf(b) THEN b
  ELSE IF IsZero(a) /\ IsZero(b) THEN Zero(a.s * b.s)
  ELSE IF IsZero(a) THEN b
  ELSE IF IsZero(b) THEN a
  ELSE AddAligned[a.s, b.s, ShiftLeft[a.m, a.e - Min(a.e, b.e)],
                  ShiftLeft[b.m, b.e - Min(a.e, b.e)], Min(a.e, b.e)]

Sub[a \in Float, b \in Float] == Add[a, Neg[b]]

\* |a| against |b| for finite or infinite a, b: -1, 0 or 1.
MagCmp[a \in Float, b \in Float] ==
  IF IsInf(a) \/ IsInf(b)
  THEN (IF IsInf(a) /\ IsInf(b) THEN 0 ELSE IF IsInf(a) THEN 1 ELSE -1)
  ELSE IF a.m = <<>> \/ b.m = <<>>
  THEN (IF a.m = b.m THEN 0 ELSE IF a.m = <<>> THEN -1 ELSE 1)
  ELSE IF a.e # b.e THEN (IF a.e < b.e THEN -1 ELSE 1)
  ELSE NatCmp[a.m, b.m]

Cmp[a \in Float, b \in Float] ==
  IF IsZero(a) /\ IsZero(b) THEN 0
  ELSE IF IsZero(a) THEN (IF b.s = 0 THEN -1 ELSE 1)
  ELSE IF IsZero(b) THEN (IF a.s = 0 THEN 1 ELSE -1)
  ELSE IF a.s # b.s THEN (IF a.s = 1 THEN -1 ELSE 1)
  ELSE (1 - 2 * a.s) * MagCmp[a, b]

\* Every comparison with NaN is False.
Lt[a \in Float, b \in Float] == ~IsNan(a) /\ ~IsNan(b) /\ Cmp[a, b] = -1

Le[a \in Float, b \in Float] == ~IsNan(a) /\ ~IsNan(b) /\ Cmp[a, b] <= 0

Eq[a \in Float, b \in Float] == ~IsNan(a) /\ ~IsNan(b) /\ Cmp[a, b] = 0

IsqrtStep[N \in Limbs, x \in Limbs] ==
  ShiftRight[NatAdd[x, NatDivMod[N, x][1]], 1]

\* Newton's iteration down to the integer square root of N.
IsqrtIter[N \in Limbs, x \in Limbs, y \in Limbs] ==
  IF NatCmp[y, x] >= 0 THEN x ELSE IsqrtIter[N, y, IsqrtStep[N, y]]

Isqrt[N \in Limbs] ==
  IsqrtIter[N, ShiftLeft[<<1>>, (BitLen[N] + 1) \div 2],
            IsqrtStep[N, ShiftLeft[<<1>>, (BitLen[N] + 1) \div 2]]]

SqrtShift[a \in Float] ==
  111 - BitLen[a.m] + ((a.e - (111 - BitLen[a.m])) % 2)

SqrtRound[N \in Limbs, r \in Limbs, e \in Int] ==
  Round[0, r, e, NatMul[r, r] # N]

\* The correctly rounded square root of a >= 0.
Sqrt[a \in Float] ==
  IF IsNan(a) \/ IsZero(a) \/ IsInf(a) THEN a
  ELSE SqrtRound[ShiftLeft[a.m, SqrtShift[a]],
                 Isqrt[ShiftLeft[a.m, SqrtShift[a]]],
                 (a.e - SqrtShift[a]) \div 2]

\* math.sqrt: ValueError below zero, so no value there.
math_sqrt[a \in Float] == CASE IsNan(a) \/ IsZero(a) \/ a.s = 0 -> Sqrt[a]

FromInt[n \in Int] ==
  Round[IF n < 0 THEN 1 ELSE 0, NatOfInt[IF n < 0 THEN -n ELSE n], 0, FALSE]

\* The float a decimal literal with d decimals denotes: n / 10^d rounded
\* once (n and 10^d are exact floats).
Dec(n, d) == Div[FromInt[n], FromInt[10 ^ d]]

FloatSeq == Seq(Float)

HALF == Fin(0, -53, <<0, 0, 0, 0, 1>>)

ONE == Fin(0, -52, <<0, 0, 0, 0, 1>>)

TWO == Fin(0, -51, <<0, 0, 0, 0, 1>>)

THREE == Fin(0, -51, <<0, 0, 0, 4096, 1>>)

\* ------------------------------------------------------------ bit patterns
\* The exponent field of a float.
BiasedExp[x \in Float] ==
  IF x.k # "fin" THEN 2047 ELSE IF BitLen[x.m] < 53 THEN 0 ELSE x.e + 1075

\* The fraction field of a float (a NaN is the quiet NaN).
Fraction[x \in Float] ==
  IF IsNan(x) THEN ShiftLeft[<<1>>, 51]
  ELSE IF BitLen[x.m] = 53 THEN NatSub[x.m, ShiftLeft[<<1>>, 52]]
  ELSE x.m

\* asuint64 (x)
AsUint64[x \in Float] ==
  NatAdd[ShiftLeft[NatOfInt[2048 * x.s + BiasedExp[x]], 52], Fraction[x]]

\* The n low bits of a.
LowBits[a \in Limbs, n \in Nat] == NatSub[a, ShiftLeft[ShiftRight[a, n], n]]

AsDoubleOf[s \in 0..1, E \in 0..2047, f \in Limbs] ==
  IF E = 2047 THEN (IF f = <<>> THEN Inf(s) ELSE NaN)
  ELSE IF E = 0 THEN (IF f = <<>> THEN Zero(s) ELSE Fin(s, -1074, f))
  ELSE Fin(s, E - 1075, NatAdd[f, ShiftLeft[<<1>>, 52]])

\* asdouble (u) for u < 2^64
AsDouble[u \in Limbs] ==
  AsDoubleOf[IF TestBit[u, 63] THEN 1 ELSE 0,
             IntOfNat[ShiftRight[u, 52]] % 2048, LowBits[u, 52]]

\* Sums and differences of uint64_t.
Add64[a \in Limbs, b \in Limbs] == LowBits[NatAdd[a, b], 64]

Sub64[a \in Limbs, b \in Limbs] ==
  IF NatCmp[a, b] >= 0 THEN NatSub[a, b]
  ELSE NatSub[NatAdd[a, ShiftLeft[<<1>>, 64]], b]

\* a * b + c where a * b is an infinity, a zero or inf * 0.
FmaEdge[a, b, c \in Float] ==
  IF (IsInf(a) /\ IsZero(b)) \/ (IsZero(a) /\ IsInf(b)) THEN NaN
  ELSE IF IsInf(a) \/ IsInf(b)
  THEN (IF IsInf(c) /\ c.s # (a.s + b.s) % 2 THEN NaN
        ELSE Inf((a.s + b.s) % 2))
  ELSE IF IsZero(c) THEN Zero(((a.s + b.s) % 2) * c.s)
  ELSE c

\* (-1)^s P 2^ep + c at the common exponent e, rounded.
FmaSum[s \in 0..1, P \in Limbs, ep \in Int, c \in Float, e \in Int] ==
  AddAligned[s, c.s, ShiftLeft[P, ep - e], ShiftLeft[c.m, c.e - e], e]

\* fma (a, b, c): a * b + c rounded once.
Fma[a, b, c \in Float] ==
  IF IsNan(a) \/ IsNan(b) \/ IsNan(c) THEN NaN
  ELSE IF IsInf(a) \/ IsInf(b) \/ IsZero(a) \/ IsZero(b)
  THEN FmaEdge[a, b, c]
  ELSE IF IsInf(c) THEN c
  ELSE FmaSum[(a.s + b.s) % 2, NatMul[a.m, b.m], a.e + b.e, c,
              Min(a.e + b.e, c.e)]

\* ---------------------------------------------------------------- libm exp
\* exp of glibc 2.36 (sysdeps/ieee754/dbl-64/e_exp.c) as built for x86-64
\* processors with FMA: a table of 2^(j/128) and a polynomial of degree 5,
\* in double arithmetic with the fused multiply-adds of that build.

EXP_INVLN2N == Fin(0, -45, <<766, 2396, 4569, 3626, 1>>)

EXP_SHIFT == Fin(0, 0, <<0, 0, 0, 4096, 1>>)

EXP_NEGLN2HIN == Fin(1, -60, <<0, 6096, 4287, 3164, 1>>)

EXP_NEGLN2LON == Fin(1, -99, <<6970, 1265, 1711, 6639, 1>>)

EXP_C2 == Fin(0, -54, <<7613, 8191, 8191, 8191, 1>>)

EXP_C3 == Fin(0, -55, <<5180, 2730, 5461, 2730, 1>>)

EXP_C4 == Fin(0, -57, <<2961, 6329, 5491, 2730, 1>>)

EXP_C5 == Fin(0, -59, <<4119, 7462, 1113, 546, 1>>)

TWO_1009 == Fin(0, 957, <<0, 0, 0, 0, 1>>)

TWO_M1022 == Fin(0, -1074, <<0, 0, 0, 0, 1>>)

\* __exp_data.tab: for j = 0..127 the tail of 2^(j/128) and the bits of
\* 2^(j/128) less j << 45, as uint64_t.
EXP_TAB ==
  <<<<>>, <<0, 0, 0, 0, 1023>>,
     <<8046, 5189, 5062, 5750, 969>>, <<4917, 4057, 3946, 8172, 1022>>,
     <<7261, 1734, 1255, 704, 3015>>, <<97, 5052, 1679, 8153, 1022>>,
     <<1745, 1083, 7812, 188, 3017>>, <<8069, 883, 1402, 8134, 1022>>,
     <<5651, 2879, 5261, 6564, 968>>, <<1396, 6316, 3124, 8115, 1022>>,
     <<3834, 8140, 8, 6045, 3016>>, <<5854, 3823, 6858, 8096, 1022>>,
     <<2145, 3894, 5016, 494, 966>>, <<7112, 940, 4422, 8078, 1022>>,
     <<5017, 6558, 6422, 327, 969>>, <<4995, 5687, 4018, 8060, 1022>>,
     <<7021, 3099, 2455, 3893, 969>>, <<2319, 1996, 5659, 8042, 1022>>,
     <<4092, 6127, 1700, 7530, 968>>, <<2039, 7058, 1162, 8025, 1022>>,
     <<7377, 380, 3932, 7548, 963>>, <<4514, 5790, 6924, 8007, 1022>>,
     <<3595, 3203, 3362, 5126, 3014>>, <<4891, 8182, 6571, 7990, 1022>>,
     <<7438, 4477, 5258, 2732, 3017>>, <<6993, 146, 116, 7974, 1022>>,
     <<2645, 631, 7139, 257, 3013>>, <<4556, 865, 3952, 7957, 1022>>,
     <<5142, 3759, 2286, 914, 3017>>, <<3552, 5449, 1707, 7941, 1022>>,
     <<5551, 2786, 6394, 423, 968>>, <<3665, 1324, 1586, 7925, 1022>>,
     <<4936, 5420, 1402, 54, 3016>>, <<4475, 1002, 3599, 7909, 1022>>,
     <<4669, 3825, 7189, 7743, 3016>>, <<3562, 1124, 7758, 7893, 1022>>,
     <<5055, 6298, 783, 5907, 968>>, <<2933, 7038, 5882, 7878, 1022>>,
     <<2854, 4239, 1821, 3507, 3017>>, <<7380, 34, 6177, 7863, 1022>>,
     <<3936, 4561, 7631, 5593, 969>>, <<6570, 2885, 460, 7849, 1022>>,
     <<6301, 7217, 178, 8143, 3016>>, <<6429, 6118, 5128, 7834, 1022>>,
     <<909, 1334, 4177, 5342, 968>>, <<3286, 788, 3810, 7820, 1022>>,
     <<1149, 1824, 364, 244, 968>>, <<7318, 3054, 4708, 7806, 1022>>,
     <<2196, 7493, 8056, 3357, 969>>, <<568, 5035, 7835, 7792, 1022>>,
     <<2173, 5026, 1596, 3772, 968>>, <<1599, 7573, 5011, 7779, 1022>>,
     <<2034, 255, 2790, 142, 968>>, <<7389, 3859, 4441, 7766, 1022>>,
     <<2142, 7048, 7887, 3440, 3017>>, <<897, 4011, 6136, 7753, 1022>>,
     <<2865, 2125, 6235, 1519, 968>>, <<7905, 2302, 1917, 7741, 1022>>,
     <<8186, 4989, 1734, 6723, 3011>>, <<6544, 1750, 8180, 7728, 1022>>,
     <<2740, 4192, 156, 5743, 968>>, <<779, 5920, 361, 7717, 1022>>,
     <<2959, 3702, 1186, 7209, 966>>, <<3926, 2545, 3050, 7705, 1022>>,
     <<2998, 3461, 7507, 1690, 968>>, <<5909, 4493, 8066, 7693, 1022>>,
     <<5196, 5475, 120, 3204, 968>>, <<6193, 614, 7231, 7682, 1022>>,
     <<6218, 3743, 3671, 8122, 968>>, <<5887, 4896, 556, 7672, 1022>>,
     <<6916, 7282, 14, 3399, 3016>>, <<8177, 7316, 4439, 7661, 1022>>,
     <<4200, 602, 7027, 1173, 3017>>, <<2507, 6613, 2509, 7651, 1022>>,
     <<3470, 6793, 7686, 4623, 3017>>, <<6246, 2094, 2971, 7641, 1022>>,
     <<5842, 5281, 6671, 931, 3015>>, <<8183, 1836, 5837, 7631, 1022>>,
     <<6933, 7792, 1644, 4658, 3017>>, <<2277, 6301, 2928, 7622, 1022>>,
     <<3181, 6482, 4649, 2878, 968>>, <<5154, 145, 2451, 7613, 1022>>,
     <<2442, 4419, 6174, 1572, 3017>>, <<28, 1380, 4417, 7604, 1022>>,
     <<2395, 188, 978, 4431, 3013>>, <<3626, 4025, 648, 7596, 1022>>,
     <<6683, 6732, 1753, 6233, 3015>>, <<2199, 2693, 7542, 7587, 1022>>,
     <<3089, 1557, 7000, 1735, 964>>, <<2349, 780, 536, 7580, 1022>>,
     <<1263, 6195, 590, 3276, 969>>, <<87, 2280, 4219, 7572, 1022>>,
     <<889, 5384, 6262, 7577, 966>>, <<7376, 3593, 2221, 7565, 1022>>,
     <<4656, 6264, 911, 2047, 969>>, <<5086, 1726, 2748, 7558, 1022>>,
     <<4016, 7125, 5038, 3361, 967>>, <<2599, 2481, 5813, 7551, 1022>>,
     <<119, 6823, 3962, 1595, 969>>, <<7437, 4078, 3238, 7545, 1022>>,
     <<910, 909, 3328, 7976, 3016>>, <<3239, 5353, 3229, 7539, 1022>>,
     <<841, 1181, 4919, 4029, 3016>>, <<1602, 5755, 5800, 7533, 1022>>,
     <<6239, 2169, 4527, 4541, 3015>>, <<3970, 5354, 2773, 7528, 1022>>,
     <<7414, 986, 4539, 3108, 3016>>, <<4623, 4844, 2354, 7523, 1022>>,
     <<6030, 2030, 326, 1642, 969>>, <<2010, 5545, 4557, 7518, 1022>>,
     <<6917, 7252, 3531, 5937, 967>>, <<2045, 1214, 1205, 7514, 1022>>,
     <<5129, 4322, 6264, 199, 969>>, <<5161, 2626, 503, 7510, 1022>>,
     <<1770, 206, 340, 2447, 963>>, <<1719, 4810, 2466, 7506, 1022>>,
     <<53, 6950, 6538, 2149, 969>>, <<328, 3433, 7109, 7502, 1022>>,
     <<5791, 3275, 4760, 6600, 3016>>, <<7177, 2998, 6254, 7499, 1022>>,
     <<3496, 8058, 4430, 6247, 3016>>, <<5509, 466, 8108, 7496, 1022>>,
     <<2478, 2399, 7714, 2214, 3016>>, <<800, 1638, 4493, 7494, 1022>>,
     <<6232, 690, 5982, 1949, 3017>>, <<549, 4777, 3616, 7492, 1022>>,
     <<6500, 1008, 2720, 3617, 965>>, <<2419, 613, 5493, 7490, 1022>>,
     <<552, 6897, 7151, 1895, 3017>>, <<7117, 5113, 1945, 7489, 1022>>,
     <<6530, 6565, 2913, 5157, 3014>>, <<6847, 2142, 1181, 7488, 1022>>,
     <<2542, 877, 7150, 1743, 3014>>, <<6703, 808, 3215, 7487, 1022>>,
     <<2129, 1796, 3925, 440, 3016>>, <<5252, 2700, 8062, 7486, 1022>>,
     <<7887, 4817, 6431, 4158, 3015>>, <<8052, 1890, 7546, 7486, 1022>>,
     <<7600, 1115, 4784, 3548, 3016>>, <<372, 1324, 1682, 7487, 1022>>,
     <<1674, 4783, 3207, 3122, 3016>>, <<1993, 4627, 6869, 7487, 1022>>,
     <<5331, 4174, 4823, 313, 969>>, <<7487, 7922, 6739, 7488, 1022>>,
     <<1309, 2669, 5934, 5733, 3015>>, <<391, 8024, 1308, 7490, 1022>>,
     <<107, 830, 8021, 2521, 969>>, <<306, 2438, 6976, 7491, 1022>>,
     <<3157, 7859, 6250, 3031, 966>>, <<3682, 5754, 7373, 7493, 1022>>,
     <<3906, 7582, 4427, 4419, 3016>>, <<6674, 496, 2517, 7496, 1022>>,
     <<5940, 2521, 3516, 1747, 3017>>, <<3603, 2662, 614, 7499, 1022>>,
     <<7966, 4303, 270, 189, 3016>>, <<1965, 4382, 1681, 7502, 1022>>,
     <<5998, 914, 5174, 2472, 3017>>, <<4845, 6692, 5734, 7505, 1022>>,
     <<2560, 6260, 6614, 346, 969>>, <<1689, 3155, 4598, 7509, 1022>>,
     <<2740, 3975, 3056, 7022, 968>>, <<219, 4437, 6480, 7513, 1022>>,
     <<2047, 1583, 6183, 2924, 3014>>, <<1164, 5546, 3205, 7518, 1022>>,
     <<8004, 3994, 214, 6125, 967>>, <<5942, 2219, 2982, 7523, 1022>>,
     <<7555, 6385, 2025, 1554, 3017>>, <<8134, 7311, 5826, 7528, 1022>>,
     <<7721, 7008, 3618, 6995, 3013>>, <<1509, 1646, 3564, 7534, 1022>>,
     <<6489, 1157, 7775, 6215, 3014>>, <<4623, 7746, 4402, 7540, 1022>>,
     <<6570, 6055, 4296, 1158, 3017>>, <<3664, 7922, 167, 7547, 1022>>,
     <<3659, 6964, 6965, 2964, 3016>>, <<1978, 1616, 7260, 7553, 1022>>,
     <<3623, 7310, 7946, 863, 967>>, <<4240, 5407, 1120, 7561, 1022>>,
     <<5051, 2131, 3448, 7076, 966>>, <<803, 3865, 6342, 7568, 1022>>,
     <<611, 4881, 264, 3978, 3016>>, <<1381, 6895, 6558, 7576, 1022>>,
     <<4565, 7953, 440, 5689, 968>>, <<3379, 593, 1787, 7585, 1022>>,
     <<6933, 7653, 5236, 887, 3017>>, <<1373, 4593, 236, 7594, 1022>>,
     <<4562, 1905, 3175, 408, 969>>, <<4952, 6533, 1924, 7603, 1022>>,
     <<6835, 5018, 283, 2259, 968>>, <<7615, 3023, 6869, 7612, 1022>>,
     <<7604, 7284, 4965, 1471, 3016>>, <<4986, 7839, 6895, 7622, 1022>>,
     <<4999, 5721, 7652, 6196, 968>>, <<5037, 2774, 2022, 7633, 1022>>,
     <<6650, 5774, 978, 247, 3017>>, <<5734, 3181, 458, 7644, 1022>>,
     <<3770, 5861, 5717, 2951, 3013>>, <<5627, 632, 2222, 7655, 1022>>,
     <<5696, 3383, 911, 328, 3017>>, <<6458, 3882, 7331, 7666, 1022>>,
     <<4916, 1388, 7438, 4525, 3014>>, <<7751, 6106, 7612, 7678, 1022>>,
     <<2613, 6852, 6298, 989, 3017>>, <<1610, 1288, 3084, 7691, 1022>>,
     <<7629, 4862, 5570, 2559, 967>>, <<466, 606, 1956, 7704, 1022>>,
     <<6316, 5268, 7934, 891, 3017>>, <<7689, 7864, 4246, 7717, 1022>>,
     <<3251, 1400, 2956, 1757, 967>>, <<4764, 3114, 1783, 7731, 1022>>,
     <<7572, 1279, 3223, 7622, 968>>, <<4218, 8190, 2775, 7745, 1022>>,
     <<6572, 2122, 1012, 2497, 968>>, <<4427, 4798, 7243, 7759, 1022>>,
     <<6759, 624, 3022, 1947, 966>>, <<1973, 55, 7013, 7774, 1022>>,
     <<6504, 1168, 2843, 3798, 966>>, <<4201, 1916, 2103, 7790, 1022>>,
     <<5586, 7781, 1568, 276, 3016>>, <<1018, 2798, 725, 7806, 1022>>,
     <<6767, 8191, 5967, 8026, 3016>>, <<2428, 4156, 2898, 7822, 1022>>,
     <<2377, 941, 2958, 27, 3017>>, <<2546, 108, 450, 7839, 1022>>,
     <<1959, 4584, 361, 2375, 967>>, <<1159, 2013, 1591, 7856, 1022>>,
     <<527, 513, 1928, 1315, 3016>>, <<920, 5708, 6341, 7873, 1022>>,
     <<4780, 3596, 5173, 7348, 968>>, <<4741, 7897, 6528, 7891, 1022>>,
     <<2891, 11, 5739, 2164, 968>>, <<5216, 6157, 2172, 7910, 1022>>,
     <<7711, 7585, 2113, 1450, 3016>>, <<7007, 7132, 1484, 7929, 1022>>,
     <<3529, 6712, 3662, 4693, 3016>>, <<297, 1965, 4485, 7948, 1022>>,
     <<2259, 468, 280, 2412, 967>>, <<8182, 7257, 3001, 7968, 1022>>,
     <<4721, 3307, 6932, 1931, 968>>, <<3203, 7738, 5246, 7988, 1022>>,
     <<4592, 7836, 1187, 8174, 3016>>, <<4314, 5412, 3048, 8009, 1022>>,
     <<5245, 4379, 1592, 7005, 3016>>, <<2033, 3187, 4619, 8030, 1022>>,
     <<8, 3409, 3856, 7559, 968>>, <<6695, 4874, 1787, 8052, 1022>>,
     <<2866, 7503, 1328, 2135, 968>>, <<6807, 7005, 2765, 8074, 1022>>,
     <<1518, 3724, 2636, 5321, 968>>, <<1344, 7026, 7574, 8096, 1022>>,
     <<1005, 479, 3769, 7279, 3016>>, <<7700, 3301, 8043, 8119, 1022>>,
     <<3485, 3214, 3795, 3858, 967>>, <<4312, 3316, 4192, 8143, 1022>>,
     <<3209, 2822, 4176, 1547, 965>>, <<4593, 7291, 4234, 8167, 1022>>>>

\* scale + scale * tmp
ExpScaled[scale, tmp \in Float] == Fma[scale, tmp, scale]

\* tail + r + r2 * (C2 + r * C3) + r2 * r2 * (C4 + r * C5)
ExpPoly[r, r2, tail \in Float] ==
  Fma[Mul[r2, r2], Fma[r, EXP_C5, EXP_C4],
      Fma[Fma[r, EXP_C3, EXP_C2], r2, Add[r, tail]]]

ExpTmp[r, tail \in Float] == ExpPoly[r, Mul[r, r], tail]

\* r = x + kd * NegLn2hiN + kd * NegLn2loN
ExpR[x, kd \in Float] ==
  Fma[kd, EXP_NEGLN2LON, Fma[kd, EXP_NEGLN2HIN, x]]

\* idx = 2 * (ki % N)
ExpIdx[ki \in Limbs] == 2 * (Limb(ki, 1) % 128)

\* sbits = T[idx + 1] + (ki << 45)
ExpSbits[ki \in Limbs] ==
  Add64[EXP_TAB[ExpIdx[ki] + 2], ShiftLeft[ki, 45]]

\* The result rounded as it will be in the subnormal range.
ExpRounded[y, hi, lo \in Float] ==
  Sub[Add[Add[Add[Sub[ONE, hi], y], lo], hi], ONE]

PlusZero[y \in Float] == IF IsZero(y) THEN Zero(0) ELSE y

ExpLow[scale, st, y \in Float] ==
  IF Lt[y, ONE]
  THEN Mul[TWO_M1022,
           PlusZero[ExpRounded[y, Add[y, ONE], Add[Sub[scale, y], st]]]]
  ELSE Mul[TWO_M1022, y]

ExpLowAt[scale, st \in Float] == ExpLow[scale, st, Add[scale, st]]

\* The end of specialcase for k < 0, scale being 2^1022 times too large.
ExpSmall[scale, tmp \in Float] == ExpLowAt[scale, Mul[scale, tmp]]

\* scale: asdouble (sbits), in specialcase of sbits - (1009 << 52) for k > 0
\* and of sbits + (1022 << 52) for k < 0.
ExpScale[sbits \in Limbs, special \in BOOLEAN, neg \in BOOLEAN] ==
  AsDouble[IF ~special THEN sbits
           ELSE IF neg THEN Add64[sbits, ShiftLeft[<<1022>>, 52]]
           ELSE Sub64[sbits, ShiftLeft[<<1009>>, 52]]]

\* scale + scale * tmp, in specialcase (512 <= |x| < 1024, where scale may
\* overflow or the result be subnormal) by way of a scale in range.
ExpResult[scale, tmp \in Float, special \in BOOLEAN, neg \in BOOLEAN] ==
  IF ~special THEN ExpScaled[scale, tmp]
  ELSE IF neg THEN ExpSmall[scale, tmp]
  ELSE Mul[TWO_1009, ExpScaled[scale, tmp]]

\* From r on: tail, tmp, sbits and scale.
ExpFrom[r \in Float, ki \in Limbs, special \in BOOLEAN, neg \in BOOLEAN] ==
  ExpResult[ExpScale[ExpSbits[ki], special, neg],
            ExpTmp[r, AsDouble[EXP_TAB[ExpIdx[ki] + 1]]], special, neg]

\* From ki = asuint64 (kd) and kd -= Shift on; k < 0 is bit 31 of ki.
ExpWith[x, kd \in Float, ki \in Limbs, special \in BOOLEAN] ==
  ExpFrom[ExpR[x, kd], ki, special, TestBit[ki, 31]]

\* From kd = x * InvLn2N + Shift on.
ExpAt[x, kd \in Float, special \in BOOLEAN] ==
  ExpWith[x, Sub[kd, EXP_SHIFT], AsUint64[kd], special]

\* C's exp: 1 + x below 2^-54, the table from there to 1024, 0 or inf
\* beyond.
Exp[x \in Float] ==
  IF BiasedExp[x] < 969 THEN Add[ONE, x]
  ELSE IF BiasedExp[x] = 2047
  THEN (IF IsInf(x) /\ x.s = 1 THEN Zero(0) ELSE Add[ONE, x])
  ELSE IF BiasedExp[x] > 1032 THEN (IF x.s = 1 THEN Zero(0) ELSE Inf(0))
  ELSE ExpAt[x, Fma[x, EXP_INVLN2N, EXP_SHIFT], BiasedExp[x] = 1032]

\* math.exp raises OverflowError where exp overflows: y = exp(a) is its
\* value when y is finite or a is an infinity, and there is no value else.
Finite[a, y \in Float] == CASE IsInf(a) \/ ~IsInf(y) -> y

math_exp[a \in Float] == Finite[a, Exp[a]]

\* ---------------------------------------------------------------- libm log
\* log of glibc 2.36 (sysdeps/ieee754/dbl-64/e_log.c), same build: a
\* polynomial of degree 12 near 1, elsewhere x = 2^k z with a table of 1/c
\* and log c for 128 intervals of z and a polynomial of degree 6.

LOG_LN2HI == Fin(0, -53, <<6144, 6097, 4287, 3164, 1>>)

LOG_LN2LO == Fin(0, -97, <<1840, 7739, 5604, 7654, 1>>)

\* __log_data.poly
LOG_A ==
  <<Fin(1, -53, <<1, 0, 0, 0, 1>>),
     Fin(0, -54, <<4187, 2697, 5461, 2730, 1>>),
     Fin(1, -55, <<1424, 8026, 8191, 8191, 1>>),
     Fin(0, -55, <<273, 1928, 3273, 4915, 1>>),
     Fin(1, -55, <<2207, 2102, 7545, 2730, 1>>)>>

\* __log_data.poly1
LOG_B ==
  <<Fin(1, -53, <<0, 0, 0, 0, 1>>),
     Fin(0, -54, <<5495, 2730, 5461, 2730, 1>>),
     Fin(1, -55, <<7627, 8191, 8191, 8191, 1>>),
     Fin(0, -55, <<7436, 3246, 1638, 4915, 1>>),
     Fin(1, -55, <<1447, 2874, 5461, 2730, 1>>),
     Fin(0, -55, <<7728, 6694, 2344, 1170, 1>>),
     Fin(1, -56, <<7525, 529, 8169, 8191, 1>>),
     Fin(0, -56, <<5834, 342, 266, 6371, 1>>),
     Fin(1, -56, <<2303, 7555, 6864, 4915, 1>>),
     Fin(0, -56, <<4229, 7550, 189, 3843, 1>>),
     Fin(1, -56, <<1485, 3722, 1245, 2724, 1>>)>>

LOG_LO == Fin(0, -53, <<0, 0, 0, 7168, 1>>)

LOG_HI == Fin(0, -52, <<0, 0, 0, 530, 1>>)

LOG_OFF == <<0, 0, 0, 3072, 1022>>

TWO_27 == Fin(0, -25, <<0, 0, 0, 0, 1>>)

TWO_52 == Fin(0, 0, <<0, 0, 0, 0, 1>>)

\* __log_data.tab: invc and logc for i = 0..127, as bit patterns.
LOG_TAB ==
  <<<<7839, 7942, 7216, 3689, 1023>>, <<4096, 3892, 8158, 3992, 3069>>,
     <<2335, 4455, 7706, 3622, 1023>>, <<0, 4200, 7088, 3807, 3069>>,
     <<5536, 2005, 6146, 3556, 1023>>, <<0, 6799, 6340, 3623, 3069>>,
     <<3197, 6300, 2439, 3491, 1023>>, <<6144, 323, 5838, 3440, 3069>>,
     <<5329, 7725, 4674, 3426, 1023>>, <<6144, 1027, 5476, 3258, 3069>>,
     <<3258, 6520, 4556, 3362, 1023>>, <<0, 4288, 5149, 3077, 3069>>,
     <<547, 274, 1990, 3299, 1023>>, <<4096, 5252, 4769, 2897, 3069>>,
     <<7897, 3368, 5094, 3236, 1023>>, <<4096, 4122, 4309, 2718, 3069>>,
     <<1220, 5241, 5546, 3174, 1023>>, <<0, 7002, 3568, 2540, 3069>>,
     <<7188, 7406, 3290, 3113, 1023>>, <<4096, 3394, 2559, 2363, 3069>>,
     <<7244, 5682, 6420, 3052, 1023>>, <<2048, 3149, 1166, 2187, 3069>>,
     <<3151, 3209, 6637, 2992, 1023>>, <<6144, 3461, 7438, 2011, 3069>>,
     <<4318, 6876, 3890, 2933, 1023>>, <<4096, 1147, 5009, 1837, 3069>>,
     <<6776, 5832, 6268, 2874, 1023>>, <<0, 7661, 1925, 1664, 3069>>,
     <<5767, 4658, 5508, 2816, 1023>>, <<0, 6708, 6331, 1491, 3069>>,
     <<3027, 5947, 1523, 2759, 1023>>, <<0, 391, 1742, 1320, 3069>>,
     <<8083, 5435, 2424, 2702, 1023>>, <<2048, 1748, 4451, 1149, 3069>>,
     <<1411, 4146, 8144, 2645, 1023>>, <<4096, 2364, 6218, 979, 3069>>,
     <<7647, 7573, 2230, 2590, 1023>>, <<6144, 6727, 6986, 810, 3069>>,
     <<7895, 6566, 977, 2535, 1023>>, <<6144, 5583, 6630, 642, 3069>>,
     <<2112, 7921, 4339, 2480, 1023>>, <<6144, 1916, 5157, 475, 3069>>,
     <<968, 965, 4016, 2426, 1023>>, <<4096, 1752, 2374, 309, 3069>>,
     <<1418, 7937, 8176, 2372, 1023>>, <<6144, 4893, 6548, 143, 3069>>,
     <<1076, 1700, 329, 2320, 1023>>, <<4096, 3127, 2193, 8150, 3068>>,
     <<3339, 6345, 4998, 2267, 1023>>, <<4096, 2237, 4765, 7822, 3068>>,
     <<6228, 6600, 5748, 2215, 1023>>, <<4096, 2177, 4367, 7496, 3068>>,
     <<1114, 1444, 2513, 2164, 1023>>, <<4096, 1869, 849, 7172, 3068>>,
     <<6395, 2223, 3408, 2113, 1023>>, <<4096, 3007, 2186, 6849, 3068>>,
     <<5297, 4599, 182, 2063, 1023>>, <<4096, 1196, 65, 6528, 3068>>,
     <<7823, 2751, 983, 2013, 1023>>, <<4096, 5192, 2645, 6208, 3068>>,
     <<3305, 90, 5736, 1963, 1023>>, <<4096, 3080, 1507, 5890, 3068>>,
     <<299, 134, 6192, 1914, 1023>>, <<4096, 1694, 4723, 5573, 3068>>,
     <<6840, 7086, 2314, 1866, 1023>>, <<4096, 4244, 4107, 5258, 3068>>,
     <<4098, 3326, 2227, 1818, 1023>>, <<4096, 239, 7642, 4944, 3068>>,
     <<6684, 3107, 5873, 1770, 1023>>, <<4096, 2625, 7002, 4632, 3068>>,
     <<5858, 3433, 5010, 1723, 1023>>, <<0, 4654, 2089, 4322, 3068>>,
     <<5184, 622, 7782, 1676, 1023>>, <<4096, 161, 1005, 4013, 3068>>,
     <<2852, 6142, 5939, 1630, 1023>>, <<4096, 787, 3599, 3705, 3068>>,
     <<3401, 3336, 7645, 1584, 1023>>, <<0, 6587, 1702, 3399, 3068>>,
     <<6544, 6641, 4621, 1539, 1023>>, <<0, 1469, 3157, 3094, 3068>>,
     <<6209, 7343, 5038, 1494, 1023>>, <<4096, 4385, 8029, 2790, 3068>>,
     <<2513, 4301, 640, 1450, 1023>>, <<4096, 7697, 7907, 2488, 3068>>,
     <<7466, 1471, 7786, 1405, 1023>>, <<0, 3728, 2836, 2188, 3068>>,
     <<7083, 4192, 1822, 1362, 1023>>, <<0, 1048, 687, 1889, 3068>>,
     <<5424, 165, 7320, 1318, 1023>>, <<0, 6728, 1626, 1591, 3068>>,
     <<501, 6845, 7829, 1275, 1023>>, <<0, 1314, 5412, 1294, 3068>>,
     <<7103, 6377, 3302, 1233, 1023>>, <<0, 973, 3710, 999, 3068>>,
     <<5565, 7295, 1888, 1191, 1023>>, <<0, 2405, 4617, 705, 3068>>,
     <<2107, 5704, 3562, 1149, 1023>>, <<0, 8121, 8149, 412, 3068>>,
     <<182, 7498, 74, 1108, 1023>>, <<0, 4085, 5906, 121, 3068>>,
     <<306, 5730, 7781, 1066, 1023>>, <<0, 604, 3951, 7855, 3067>>,
     <<7323, 3735, 2055, 1026, 1023>>, <<0, 4610, 549, 7278, 3067>>,
     <<2059, 2666, 7442, 985, 1023>>, <<0, 6090, 1551, 6703, 3067>>,
     <<1385, 5243, 7508, 945, 1023>>, <<0, 5829, 6611, 6130, 3067>>,
     <<7804, 2747, 2244, 906, 1023>>, <<0, 379, 7752, 5560, 3067>>,
     <<1769, 1625, 7965, 866, 1023>>, <<0, 6468, 4345, 4993, 3067>>,
     <<6838, 352, 67, 828, 1023>>, <<0, 7062, 4524, 4428, 3067>>,
     <<4285, 7603, 3102, 789, 1023>>, <<0, 7520, 108, 3866, 3067>>,
     <<7350, 3965, 649, 751, 1023>>, <<0, 2496, 7249, 3305, 3067>>,
     <<4570, 2657, 845, 713, 1023>>, <<0, 3132, 923, 2748, 3067>>,
     <<8157, 314, 3684, 675, 1023>>, <<0, 5391, 5943, 2192, 3067>>,
     <<4684, 406, 937, 638, 1023>>, <<0, 2901, 5715, 1639, 3067>>,
     <<6618, 4231, 732, 601, 1023>>, <<0, 1579, 7806, 1088, 3067>>,
     <<5425, 1893, 3082, 564, 1023>>, <<0, 785, 4518, 540, 3067>>,
     <<5295, 5153, 7926, 527, 1023>>, <<0, 5776, 6938, 8180, 3066>>,
     <<2995, 6771, 7043, 491, 1023>>, <<0, 5050, 850, 7093, 3066>>,
     <<8142, 2388, 407, 456, 1023>>, <<0, 1064, 6969, 6009, 3066>>,
     <<1313, 6501, 4376, 420, 1023>>, <<0, 150, 592, 4931, 3066>>,
     <<6170, 1812, 2527, 385, 1023>>, <<0, 6166, 5644, 3856, 3066>>,
     <<5841, 7729, 3040, 350, 1023>>, <<0, 7860, 6041, 2786, 3066>>,
     <<4921, 1280, 5862, 315, 1023>>, <<0, 2860, 658, 1721, 3066>>,
     <<2015, 6807, 2795, 281, 1023>>, <<0, 170, 6361, 659, 3066>>,
     <<2299, 6769, 1995, 247, 1023>>, <<0, 5980, 4128, 7397, 3065>>,
     <<3865, 428, 3427, 213, 1023>>, <<0, 4756, 7252, 5291, 3065>>,
     <<6444, 3943, 7081, 179, 1023>>, <<0, 7180, 6323, 3194, 3065>>,
     <<3216, 3721, 4723, 146, 1023>>, <<0, 1360, 7907, 1105, 3065>>,
     <<3497, 6021, 4529, 113, 1023>>, <<0, 1992, 7880, 6242, 3064>>,
     <<4777, 7113, 6468, 80, 1023>>, <<0, 3408, 3415, 2098, 3064>>,
     <<4936, 8019, 2313, 48, 1023>>, <<0, 5984, 240, 4132, 3063>>,
     <<4501, 4261, 257, 16, 1023>>, <<0, 2336, 606, 8, 3062>>,
     <<6682, 6455, 2045, 8128, 1022>>, <<0, 1152, 7393, 8159, 1014>>,
     <<2676, 4879, 1840, 8002, 1022>>, <<0, 2536, 4173, 4024, 1016>>,
     <<6446, 1036, 1068, 7878, 1022>>, <<0, 1556, 2289, 1949, 1017>>,
     <<3533, 1909, 7567, 7755, 1022>>, <<0, 1096, 4165, 5951, 1017>>,
     <<5095, 7304, 4608, 7635, 1022>>, <<0, 4232, 5683, 865, 1018>>,
     <<4523, 1629, 30, 7517, 1022>>, <<0, 14, 5876, 2836, 1018>>,
     <<3227, 5352, 1704, 7400, 1022>>, <<0, 1732, 208, 4793, 1018>>,
     <<6581, 6228, 1120, 7285, 1022>>, <<0, 6844, 6843, 6734, 1018>>,
     <<6742, 2820, 6146, 7171, 1022>>, <<0, 3270, 1593, 235, 1019>>,
     <<7064, 3005, 121, 7060, 1022>>, <<0, 6249, 7544, 1191, 1019>>,
     <<4355, 7140, 7298, 6949, 1022>>, <<0, 6592, 5986, 2141, 1019>>,
     <<7374, 6106, 2841, 6841, 1022>>, <<0, 6846, 5729, 3084, 1019>>,
     <<7837, 4854, 2858, 6734, 1022>>, <<0, 2896, 7565, 4020, 1019>>,
     <<3277, 4953, 7055, 6628, 1022>>, <<0, 4323, 4307, 4950, 1019>>,
     <<6402, 5435, 7016, 6524, 1022>>, <<0, 6251, 4590, 5873, 1019>>,
     <<2157, 2488, 2459, 6422, 1022>>, <<0, 5945, 1228, 6790, 1019>>,
     <<6148, 2794, 1327, 6321, 1022>>, <<0, 3827, 3164, 7700, 1019>>,
     <<8076, 7644, 3404, 6221, 1022>>, <<0, 7306, 1354, 206, 1020>>,
     <<1855, 5991, 251, 6123, 1022>>, <<4096, 5269, 352, 655, 1020>>,
     <<5825, 3804, 8029, 6025, 1022>>, <<4096, 3665, 7091, 1100, 1020>>,
     <<2600, 1074, 1923, 5930, 1022>>, <<4096, 5674, 5609, 1543, 1020>>,
     <<7724, 3961, 6321, 5835, 1022>>, <<4096, 408, 4303, 1983, 1020>>,
     <<2187, 7756, 4633, 5742, 1022>>, <<0, 7124, 3482, 2420, 1020>>,
     <<4170, 2281, 4808, 5650, 1022>>, <<4096, 1679, 3658, 2854, 1020>>,
     <<3966, 3991, 6689, 5559, 1022>>, <<4096, 199, 4937, 3285, 1020>>,
     <<7586, 2817, 1868, 5470, 1022>>, <<4096, 820, 7739, 3713, 1020>>,
     <<6311, 7834, 6543, 5381, 1022>>, <<4096, 2263, 4157, 4139, 1020>>,
     <<5003, 6219, 4155, 5294, 1022>>, <<0, 1972, 2645, 4562, 1020>>,
     <<2855, 1370, 2724, 5208, 1022>>, <<0, 6082, 3456, 4982, 1020>>,
     <<4817, 7327, 2052, 5123, 1022>>, <<0, 352, 6983, 5399, 1020>>,
     <<7195, 1753, 1993, 5039, 1022>>, <<4096, 14, 5207, 5814, 1020>>,
     <<4496, 3645, 2369, 4956, 1022>>, <<0, 1510, 6643, 6226, 1020>>,
     <<3631, 5310, 3004, 4874, 1022>>, <<0, 2627, 3445, 6636, 1020>>,
     <<2933, 5410, 3771, 4793, 1022>>, <<0, 566, 3917, 7043, 1020>>,
     <<2104, 3898, 4519, 4713, 1022>>, <<0, 1663, 110, 7448, 1020>>,
     <<4838, 6970, 5067, 4634, 1022>>, <<4096, 188, 624, 7850, 1020>>,
     <<6045, 6142, 5283, 4556, 1022>>, <<6144, 4349, 6916, 28, 1021>>,
     <<124, 7776, 5031, 4479, 1022>>, <<4096, 5278, 3587, 227, 1021>>,
     <<782, 5622, 4150, 4403, 1022>>, <<4096, 5171, 6887, 424, 1021>>,
     <<6139, 4376, 2538, 4328, 1022>>, <<4096, 6750, 460, 621, 1021>>,
     <<6664, 1436, 43, 4254, 1022>>, <<2048, 6426, 857, 816, 1021>>,
     <<7765, 809, 4730, 4180, 1022>>, <<0, 1636, 8184, 1009, 1021>>,
     <<608, 4000, 101, 4108, 1022>>, <<2048, 6939, 6133, 1202, 1021>>,
     <<809, 7941, 2392, 4036, 1022>>, <<2048, 2213, 3074, 1394, 1021>>,
     <<5549, 7909, 3293, 3965, 1022>>, <<0, 539, 7300, 1584, 1021>>,
     <<1474, 7353, 2713, 3895, 1022>>, <<6144, 3936, 2459, 1774, 1021>>,
     <<1623, 4280, 508, 3826, 1022>>, <<4096, 7545, 5118, 1962, 1021>>,
     <<4876, 7856, 4790, 3757, 1022>>, <<0, 6527, 7096, 2149, 1021>>>>

LogNearEnd[r, r3, p, rhi, rh2, hi \in Float] ==
  Add[hi,
      Fma[p, r3,
          Fma[Mul[LOG_B[1], Sub[r, rhi]], Add[r, rhi],
              Fma[rh2, LOG_B[1], Sub[r, hi]]]]]

LogNearSum[r, r3, p, rhi, rh2 \in Float] ==
  LogNearEnd[r, r3, p, rhi, rh2, Fma[rh2, LOG_B[1], r]]

LogNearSplit[r, r3, p, rhi \in Float] ==
  LogNearSum[r, r3, p, rhi, Mul[rhi, rhi]]

\* B[3j+1] + r B[3j+2] + r2 B[3j+3] for j = 0, 1, 2.
LogNearTerms[r, r2 \in Float] ==
  [j \in 0..2 |->
     Fma[r2, LOG_B[3 * j + 4], Fma[r, LOG_B[3 * j + 3], LOG_B[3 * j + 2]]]]

LogTerms == [0..2 -> Float]

\* B[1] + r B[2] + r2 B[3] + r3 (B[4] + r B[5] + r2 B[6]
\*   + r3 (B[7] + r B[8] + r2 B[9] + r3 B[10]))
LogNearPoly[r3 \in Float, p \in LogTerms] ==
  Fma[Fma[Fma[r3, LOG_B[11], p[2]], r3, p[1]], r3, p[0]]

LogNearAt[r, r2, r3 \in Float] ==
  LogNearSplit[r, r3, LogNearPoly[r3, LogNearTerms[r, r2]],
               Fma[Neg[TWO_27], r, Fma[r, TWO_27, r]]]

LogNearOf[r, r2 \in Float] == LogNearAt[r, r2, Mul[r, r2]]

\* log x for 1 - 2^-4 <= x < 1 + 0x1.09p-4, from r = x - 1.
LogNear[r \in Float] == LogNearOf[r, Mul[r, r]]

\* lo + r2 A[0] + r r2 (A[1] + r A[2] + r2 (A[3] + r A[4])) + hi
LogSum[r, r2, w, hi, kd \in Float] ==
  Add[Fma[Mul[r, r2],
          Fma[Fma[r, LOG_A[5], LOG_A[4]], r2, Fma[r, LOG_A[3], LOG_A[2]]],
          Fma[r2, LOG_A[1], Fma[kd, LOG_LN2LO, Add[Sub[w, hi], r]]]],
      hi]

LogOf[r, w, kd \in Float] == LogSum[r, Mul[r, r], w, Add[r, w], kd]

\* r = z * invc - 1 and w = kd * Ln2hi + logc
LogAt[z \in Float, i \in 0..127, kd \in Float] ==
  LogOf[Fma[z, AsDouble[LOG_TAB[2 * i + 1]], Neg[ONE]],
        Fma[kd, LOG_LN2HI, AsDouble[LOG_TAB[2 * i + 2]]], kd]

\* k = (int64_t) tmp >> 52 from the top twelve bits of tmp
LogK[top \in 0..4095] == IF top >= 2048 THEN top - 4096 ELSE top

\* From tmp = ix - OFF on: i, k and z.
LogMain[ix \in Limbs, tmp \in Limbs] ==
  LogAt[AsDouble[Sub64[ix, ShiftLeft[ShiftRight[tmp, 52], 52]]],
        IntOfNat[ShiftRight[tmp, 45]] % 128,
        FromInt[LogK[IntOfNat[ShiftRight[tmp, 52]]]]]

\* ix, a subnormal x scaled by 2^52 first.
LogIx[x \in Float] ==
  IF BiasedExp[x] = 0
  THEN Sub64[AsUint64[Mul[x, TWO_52]], ShiftLeft[<<52>>, 52]]
  ELSE AsUint64[x]

\* C's log: -inf at 0 and NaN below.
Log[x \in Float] ==
  IF IsNan(x) THEN NaN
  ELSE IF Le[LOG_LO, x] /\ Lt[x, LOG_HI]
  THEN (IF Eq[x, ONE] THEN Zero(0) ELSE LogNear[Sub[x, ONE]])
  ELSE IF IsZero(x) THEN Inf(1)
  ELSE IF x.s = 1 THEN NaN
  ELSE IF IsInf(x) THEN x
  ELSE LogMain[LogIx[x], Sub64[LogIx[x], LOG_OFF]]

\* math.log: ValueError at and below zero, so no value there.
math_log[a \in Float] == CASE IsNan(a) \/ (a.s = 0 /\ ~IsZero(a)) -> Log[a]

\* ------------------------------------------------------------ cephes ndtr
\* scipy.special.ndtr with erf and erfc of Cephes (ndtr.c): rational
\* functions evaluated by Horner's rule in double arithmetic, and libm's exp.

\* Coefficients P, Q (1 <= x < 8) and R, S (x >= 8) of erfc, T and U of erf.
ERFC_P ==
  <<Fin(0, -84, <<1145, 4731, 2344, 470, 1>>),
     Fin(0, -53, <<5256, 4529, 5585, 1051, 1>>),
     Fin(0, -50, <<3524, 5675, 5367, 7092, 1>>),
     Fin(0, -47, <<6758, 1389, 1003, 4259, 1>>),
     Fin(0, -45, <<247, 3841, 2730, 4385, 1>>),
     Fin(0, -43, <<3928, 4902, 1008, 231, 1>>),
     Fin(0, -43, <<5336, 929, 3739, 6760, 1>>),
     Fin(0, -42, <<5930, 3764, 3400, 28, 1>>),
     Fin(0, -43, <<8115, 3911, 4631, 728, 1>>)>>

ERFC_Q ==
  <<Fin(0, -49, <<972, 3041, 5503, 5353, 1>>),
     Fin(0, -46, <<4965, 5899, 4287, 2906, 1>>),
     Fin(0, -44, <<269, 891, 73, 3166, 1>>),
     Fin(0, -43, <<464, 6066, 2752, 7419, 1>>),
     Fin(0, -42, <<4433, 1315, 2239, 6399, 1>>),
     Fin(0, -41, <<5375, 6103, 2870, 793, 1>>),
     Fin(0, -42, <<3554, 3223, 2496, 5061, 1>>),
     Fin(0, -43, <<726, 1570, 4632, 728, 1>>)>>

ERFC_R ==
  <<Fin(0, -53, <<7010, 532, 5588, 1051, 1>>),
     Fin(0, -52, <<1446, 7622, 6586, 2255, 1>>),
     Fin(0, -50, <<1818, 437, 125, 2087, 1>>),
     Fin(0, -50, <<3084, 1768, 918, 4424, 1>>),
     Fin(0, -50, <<5646, 6340, 1253, 6983, 1>>),
     Fin(0, -51, <<871, 4664, 3586, 4009, 1>>)>>

ERFC_S ==
  <<Fin(0, -51, <<3617, 2238, 1026, 1067, 1>>),
     Fin(0, -49, <<3325, 3778, 4424, 1429, 1>>),
     Fin(0, -49, <<3149, 6185, 1055, 4146, 1>>),
     Fin(0, -48, <<8181, 3299, 5733, 553, 1>>),
     Fin(0, -49, <<1729, 4889, 4778, 1647, 1>>),
     Fin(0, -51, <<3472, 5553, 6038, 5607, 1>>)>>

ERF_T ==
  <<Fin(0, -49, <<7560, 4538, 4039, 1643, 1>>),
     Fin(0, -46, <<1663, 5360, 2707, 3331, 1>>),
     Fin(0, -41, <<5559, 1441, 175, 736, 1>>),
     Fin(0, -40, <<3984, 919, 5327, 5814, 1>>),
     Fin(0, -37, <<5084, 528, 617, 5706, 1>>)>>

ERF_U ==
  <<Fin(0, -47, <<1722, 8061, 6543, 399, 1>>),
     Fin(0, -43, <<6894, 1585, 5957, 149, 1>>),
     Fin(0, -40, <<7442, 5127, 5305, 996, 1>>),
     Fin(0, -38, <<7178, 2059, 4096, 3122, 1>>),
     Fin(0, -37, <<5479, 3655, 6951, 4124, 1>>)>>

\* MAXLOG = 7.09782712893383996843E2
MAXLOG == Fin(0, -43, <<6639, 6097, 4287, 3164, 1>>)

EIGHT == Fin(0, -49, <<0, 0, 0, 0, 1>>)

\* Horner's rule from coefficient i on.
Horner[x \in Float, coef \in FloatSeq, i \in Nat, ans \in Float] ==
  IF i > Len(coef) THEN ans
  ELSE Horner[x, coef, i + 1, Add[Mul[ans, x], coef[i]]]

polevl[x \in Float, coef \in FloatSeq] == Horner[x, coef, 2, coef[1]]

\* polevl with a leading coefficient of 1.
p1evl[x \in Float, coef \in FloatSeq] ==
  Horner[x, coef, 2, Add[x, coef[1]]]

\* The result of erfc where it underflows.
ErfcUnder[a \in Float] == IF Lt[a, Zero(0)] THEN TWO ELSE Zero(0)

\* if (a < 0) y = 2.0 - y; if (y != 0.0) return y; else underflow
ErfcEnd[a, y \in Float] ==
  IF Lt[a, Zero(0)] THEN Sub[TWO, y]
  ELSE IF IsZero(y) THEN ErfcUnder[a]
  ELSE y

\* y = (z * p) / q with P and Q for x < 8, R and S from 8 on.
ErfcY[x, z \in Float] ==
  Div[Mul[z, polevl[x, IF Lt[x, EIGHT] THEN ERFC_P ELSE ERFC_R]],
      p1evl[x, IF Lt[x, EIGHT] THEN ERFC_Q ELSE ERFC_S]]

\* erfc for |a| >= 1 from z = -a * a on.
ErfcAt[a, z \in Float] ==
  IF Lt[z, Neg[MAXLOG]] THEN ErfcUnder[a]
  ELSE ErfcEnd[a, ErfcY[Fabs[a], Exp[z]]]

\* y = x * polevl(z, T, 4) / p1evl(z, U, 5)
ErfRat[x, z \in Float] ==
  Div[Mul[x, polevl[z, ERF_T]], p1evl[z, ERF_U]]

RECURSIVE Erf(_), Erfc(_)

\* erf(x): -erf(-x) below 0, 1 - erfc(x) above 1.
Erf(x) ==
  IF IsNan(x) THEN NaN
  ELSE IF Lt[x, Zero(0)] THEN Neg[Erf(Neg[x])]
  ELSE IF Lt[ONE, Fabs[x]] THEN Sub[ONE, Erfc(x)]
  ELSE ErfRat[x, Mul[x, x]]

\* erfc(a): 1 - erf(a) for |a| < 1.
Erfc(a) ==
  IF IsNan(a) THEN NaN
  ELSE IF Lt[Fabs[a], ONE] THEN Sub[ONE, Erf(a)]
  ELSE ErfcAt[a, Mul[Neg[a], a]]

\* sqrt(1/2) = 0x1.6a09e667f3bcdp-1 and pi = 0x1.921fb54442d18p+1
SQRT1_2 == Fin(0, -53, <<7117, 5113, 1945, 3393, 1>>)

PI == Fin(0, -51, <<3352, 545, 7893, 4675, 1>>)

\* if (x > 0) y = 1.0 - y
NdtrTail[x, y \in Float] == IF Lt[Zero(0), x] THEN Sub[ONE, y] ELSE y

\* From x = a * SQRT1_2 on: 0.5 + 0.5 * erf(x) for |x| < 1, else from
\* y = 0.5 * erfc(|x|).
NdtrOf[x \in Float] ==
  IF Lt[Fabs[x], ONE] THEN Add[HALF, Mul[HALF, Erf(x)]]
  ELSE NdtrTail[x, Mul[HALF, Erfc(Fabs[x])]]

\* scipy.special.ndtr: the standard normal distribution function.
Ndtr[a \in Float] == IF IsNan(a) THEN a ELSE NdtrOf[Mul[a, SQRT1_2]]

norm_cdf[x \in Float] == Ndtr[x]

NORM_PDF_C == Sqrt[Mul[TWO, PI]]

\* exp(-x**2/2.0) / sqrt(2 pi)
norm_pdf[x \in Float] == Div[Exp[Neg[Div[Mul[x, x], TWO]]], NORM_PDF_C]

\* ----------------------------------------------------------------- strings
\* A str is the sequence of its characters.  A character is written as
\* itself when it is an ASCII letter, digit or space, and by its code point
\* otherwise: "U+0130" is LATIN CAPITAL LETTER I WITH DOT ABOVE and "U+0307"
\* COMBINING DOT ABOVE.
UpperCase ==
  <<"A", "B", "C", "D", "E", "F", "G", "H", "I", "J", "K", "L", "M", "N",
    "O", "P", "Q", "R", "S", "T", "U", "V", "W", "X", "Y", "Z">>

LowerCase ==
  <<"a", "b", "c", "d", "e", "f", "g", "h", "i", "j", "k", "l", "m", "n",
    "o", "p", "q", "r", "s", "t", "u", "v", "w", "x", "y", "z">>

\* The characters of the strings modelled.
Chars ==
  {UpperCase[i] : i \in 1..26} \cup {LowerCase[i] : i \in 1..26}
    \cup {"0", "1", "2", "3", "4", "5", "6", "7", "8", "9"}
    \cup {" ", "U+0130", "U+0307"}

Str == Seq(Chars)

CallStr == <<"c", "a", "l", "l">>

PutStr == <<"p", "u", "t">>

\* str.lower() of one character: a sequence, since a character can lower-case
\* to two.  A to Z become a to z, U+0130 becomes "i" and U+0307, and the
\* other characters of Chars have no lower case of their own.
LowerChar(ch) ==
  IF \E i \in 1..26 : UpperCase[i] = ch
  THEN <<LowerCase[CHOOSE i \in 1..26 : UpperCase[i] = ch]>>
  ELSE CASE ch = "U+0130" -> <<"i", "U+0307">>
         [] ch \in Chars \ {"U+0130"} -> <<ch>>

\* s.lower().
RECURSIVE Lower(_)
Lower(s) == IF s = <<>> THEN <<>> ELSE LowerChar(Head(s)) \o Lower(Tail(s))

\* s.startswith(prefix).
StartsWith(s, prefix) ==
  Len(s) >= Len(prefix) /\ SubSeq(s, 1, Len(prefix)) = prefix

\* bs_price's side: opt_type.lower().startswith("c").
PriceSideIsCall(opt_type) == StartsWith(Lower(opt_type), <<"c">>)

\* The side read off the first character as written, not lower-cased.
IntrinsicSideIsCall_Exact(opt_type) == opt_type[1] = "c"

\* implied_vol's side: opt_type[0].lower() == "c" (opt_type non-empty).
IntrinsicSideIsCall(opt_type) == LowerChar(opt_type[1]) = <<"c">>

\* ----------------------------------------------------------- Black-Scholes
\* The triple d1_d2 returns.
D12 == [d1 : Float, d2 : Float, sqrtT : Float]

\* d1 = (math.log(S/K) + (r - q + 0.5*vol*vol)*T) / (vol*sqrtT) and
\* d2 = d1 - vol*sqrtT.
D1D2[d1 \in Float, vol \in Float, sqrtT \in Float] ==
  [d1 |-> d1, d2 |-> Sub[d1, Mul[vol, sqrtT]], sqrtT |-> sqrtT]

D1[S, K, T, r, q, vol, sqrtT \in Float] ==
  TrueDiv[Add[math_log[TrueDiv[S, K]],
              Mul[Add[Sub[r, q], Mul[Mul[HALF, vol], vol]], T]],
          Mul[vol, sqrtT]]

D1D2At[S, K, T, r, q, vol, sqrtT \in Float] ==
  D1D2[D1[S, K, T, r, q, vol, sqrtT], vol, sqrtT]

\* d1_d2(S, K, T, r, q, vol).
d1_d2[S, K, T, r, q, vol \in Float] ==
  D1D2At[S, K, T, r, q, vol, math_sqrt[T]]

\* A discount factor with the sign of the rate dropped.
Disc_Growth(rate, T) == math_exp[Mul[rate, T]]

\* math.exp(-rate*T).
Disc(rate, T) == math_exp[Mul[Neg[rate], T]]

\* disc_r = math.exp(-r*T) and disc_q = math.exp(-q*T).
Discounts == [disc_r : Float, disc_q : Float]

DiscountOf[rates \in Discounts, T \in Float] ==
  [n \in {"disc_r", "disc_q"} |-> Disc(rates[n], T)]

DiscountsAt[T, r, q \in Float] ==
  DiscountOf[[disc_r |-> r, disc_q |-> q], T]

\* norm.cdf of each of xs.
CdfAll[xs \in FloatSeq] == [i \in DOMAIN xs |-> norm_cdf[xs[i]]]

\* The call branch of bs_price, N being norm.cdf(d1) and norm.cdf(d2).
CallValue[S, K \in Float, D \in Discounts, N \in FloatSeq] ==
  Sub[Mul[Mul[S, D.disc_q], N[1]], Mul[Mul[K, D.disc_r], N[2]]]

\* The put branch of bs_price, N being norm.cdf(-d2) and norm.cdf(-d1).
PutValue[S, K \in Float, D \in Discounts, N \in FloatSeq] ==
  Sub[Mul[Mul[K, D.disc_r], N[1]], Mul[Mul[S, D.disc_q], N[2]]]

\* What norm.cdf is applied to in the branch bs_price takes.
CdfArgs[d \in D12, opt_type \in Str] ==
  IF PriceSideIsCall(opt_type) THEN <<d.d1, d.d2>>
  ELSE <<Neg[d.d2], Neg[d.d1]>>

\* The if of bs_price.
PriceOfSide[S, K \in Float, D \in Discounts, N \in FloatSeq, o \in Str] ==
  IF PriceSideIsCall(o) THEN CallValue[S, K, D, N] ELSE PutValue[S, K, D, N]

\* bs_price(S, K, T, r, q, vol, opt_type).
bs_price[S, K, T, r, q, vol \in Float, opt_type \in Str] ==
  PriceOfSide[S, K, DiscountsAt[T, r, q],
              CdfAll[CdfArgs[d1_d2[S, K, T, r, q, vol], opt_type]],
              opt_type]

GreekNames ==
  {"call", "put", "d1", "d2", "delta_c", "delta_p", "gamma", "vega",
   "theta_c", "theta_p", "rho_c", "rho_p"}

\* The locals of greeks besides d1, d2 and sqrtT: disc_r, disc_q, pdf and the
\* four values of norm.cdf.
Locals ==
  [disc_r : Float, disc_q : Float, pdf : Float,
   d1 : Float, d2 : Float, nd1 : Float, nd2 : Float]

LocalsOf[D \in Discounts, pdf \in Float, N \in FloatSeq] ==
  [disc_r |-> D.disc_r, disc_q |-> D.disc_q, pdf |-> pdf,
   d1 |-> N[1], d2 |-> N[2], nd1 |-> N[3], nd2 |-> N[4]]

LocalsAt[T, r, q \in Float, d \in D12] ==
  LocalsOf[DiscountsAt[T, r, q], norm_pdf[d.d1],
           CdfAll[<<d.d1, d.d2, Neg[d.d1], Neg[d.d2]>>]]

\* -(S*disc_q*pdf*vol)/(2*sqrtT), the first term of both thetas; pdf is a
\* numpy float, whose division by zero is an infinity or NaN.
ThetaDecay[S, vol, disc_q, pdf, sqrtT \in Float] ==
  Div[Neg[Mul[Mul[Mul[S, disc_q], pdf], vol]], Mul[TWO, sqrtT]]

\* The twelve results of greeks from its locals.
GreeksOf[S, K, T, r, q, vol \in Float, d \in D12, N \in Locals] ==
  [call |-> Sub[Mul[Mul[S, N.disc_q], N.d1], Mul[Mul[K, N.disc_r], N.d2]],
   put |-> Sub[Mul[Mul[K, N.disc_r], N.nd2], Mul[Mul[S, N.disc_q], N.nd1]],
   d1 |-> d.d1,
   d2 |-> d.d2,
   delta_c |-> Mul[N.disc_q, N.d1],
   delta_p |-> Mul[N.disc_q, Sub[N.d1, ONE]],
   gamma |-> Div[Mul[N.disc_q, N.pdf], Mul[Mul[S, vol], d.sqrtT]],
   vega |-> Mul[Mul[Mul[S, N.disc_q], N.pdf], d.sqrtT],
   theta_c |-> Add[Sub[ThetaDecay[S, vol, N.disc_q, N.pdf, d.sqrtT],
                       Mul[Mul[Mul[r, K], N.disc_r], N.d2]],
                   Mul[Mul[Mul[q, S], N.disc_q], N.d1]],
   theta_p |-> Sub[Add[ThetaDecay[S, vol, N.disc_q, N.pdf, d.sqrtT],
                       Mul[Mul[Mul[r, K], N.disc_r], N.nd2]],
                   Mul[Mul[Mul[q, S], N.disc_q], N.nd1]],
   rho_c |-> Mul[Mul[Mul[K, T], N.disc_r], N.d2],
   rho_p |-> Mul[Mul[Mul[Neg[K], T], N.disc_r], N.nd2]]

\* greeks from disc_r = math.exp(-r*T) on.
GreeksAt[S, K, T, r, q, vol \in Float, d \in D12] ==
  GreeksOf[S, K, T, r, q, vol, d, LocalsAt[T, r, q, d]]

\* greeks(S, K, T, r, q, vol).  A NaN vol goes through every formula (vol*vol,
\* the division, norm.cdf, norm.pdf) and comes out of every result.
greeks[S, K, T, r, q, vol \in Float] ==
  GreeksAt[S, K, T, r, q, vol, d1_d2[S, K, T, r, q, vol]]

\* ------------------------------------------------------------- implied_vol
\* max(0.0, x): x when x > 0.0, else 0.0.
Max0[x \in Float] == IF Lt[Zero(0), x] THEN x ELSE Zero(0)

\* max(0.0, S*disc_q - K*disc_r) for a call, max(0.0, K*disc_r - S*disc_q)
\* for a put.
IntrinsicOf[S, K \in Float, D \in Discounts, opt_type \in Str] ==
  IF IntrinsicSideIsCall(opt_type)
  THEN Max0[Sub[Mul[S, D.disc_q], Mul[K, D.disc_r]]]
  ELSE Max0[Sub[Mul[K, D.disc_r], Mul[S, D.disc_q]]]

Intrinsic[S, K, T, r, q \in Float, opt_type \in Str] ==
  IntrinsicOf[S, K, DiscountsAt[T, r, q], opt_type]

\* The guard with the intrinsic value left out of the comparison.
BelowIntrinsic_Negative(price_mkt, intrinsic) == Lt[price_mkt, Zero(0)]

\* The guard of implied_vol: price_mkt < intrinsic.
BelowIntrinsic(price_mkt, intrinsic) == Lt[price_mkt, intrinsic]

\* f = lambda sig: bs_price(S, K, T, r, q, sig, opt_type) - price_mkt.
Objective[price_mkt, S, K, T, r, q, sig \in Float, opt_type \in Str] ==
  Sub[bs_price[S, K, T, r, q, sig, opt_type], price_mkt]

\* ------------------------------------------------------------------ brentq
\* brentq(f, 1e-6, 5.0, maxiter=200, xtol=1e-10), rtol being 4 times the
\* machine epsilon, 2^-50.
SigmaLo == Dec(1, 6)

SigmaHi == FromInt[5]

MaxIter == 200

XTOL == Div[ONE, Mul[FromInt[100000], FromInt[100000]]]

RTOL == Fin(0, -102, <<0, 0, 0, 0, 1>>)

\* brentq's locals: xpre, xcur, xblk, fpre, fcur, fblk, spre, scur.
Brent ==
  [xpre : Float, xcur : Float, xblk : Float, fpre : Float, fcur : Float,
   fblk : Float, spre : Float, scur : Float]

\* Re-bracket when the last two iterates straddle the root: fpre != 0 and
\* fcur != 0 and their sign bits differ.
BrentqRebracket[b \in Brent] ==
  IF ~IsZero(b.fpre) /\ ~IsZero(b.fcur) /\ b.fpre.s # b.fcur.s
  THEN [b EXCEPT !.xblk = b.xpre, !.fblk = b.fpre,
                 !.spre = Sub[b.xcur, b.xpre], !.scur = Sub[b.xcur, b.xpre]]
  ELSE b

\* Keep the better of the bracket's ends in xcur.
BrentqSwap[b \in Brent] ==
  IF Lt[Fabs[b.fblk], Fabs[b.fcur]]
  THEN [b EXCEPT !.xpre = b.xcur, !.xcur = b.xblk, !.xblk = b.xcur,
                 !.fpre = b.fcur, !.fcur = b.fblk, !.fblk = b.fcur]
  ELSE b

\* Brent's loop, first part.
BrentqBracket[b \in Brent] == BrentqSwap[BrentqRebracket[b]]

\* delta = (xtol + rtol*fabs(xcur))/2.
Delta[b \in Brent] == Div[Add[XTOL, Mul[RTOL, Fabs[b.xcur]]], TWO]

\* sbis = (xblk - xcur)/2.
Sbis[b \in Brent] == Div[Sub[b.xblk, b.xcur], TWO]

\* The loop's exit: fcur == 0 or fabs(sbis) < delta.
BrentqConverged(b) == IsZero(b.fcur) \/ Lt[Fabs[Sbis[b]], Delta[b]]

\* The trial step: secant interpolation when xpre == xblk, inverse quadratic
\* extrapolation otherwise.
BrentqExtrapolate[b \in Brent, dpre \in Float, dblk \in Float] ==
  Div[Mul[Neg[b.fcur], Sub[Mul[b.fblk, dblk], Mul[b.fpre, dpre]]],
      Mul[Mul[dblk, dpre], Sub[b.fblk, b.fpre]]]

BrentqTrial[b \in Brent] ==
  IF Eq[b.xpre, b.xblk]
  THEN Div[Mul[Neg[b.fcur], Sub[b.xcur, b.xpre]], Sub[b.fcur, b.fpre]]
  ELSE BrentqExtrapolate[b, Div[Sub[b.fpre, b.fcur], Sub[b.xpre, b.xcur]],
                         Div[Sub[b.fblk, b.fcur], Sub[b.xblk, b.xcur]]]

\* MIN(x, y): x < y ? x : y.
FMin(x, y) == IF Lt[x, y] THEN x ELSE y

\* A trial step is looked at: the last step was long enough and f shrank.
BrentqInterpolates[b \in Brent, delta \in Float] ==
  Lt[delta, Fabs[b.spre]] /\ Lt[Fabs[b.fcur], Fabs[b.fpre]]

\* The trial step stry is taken:
\* 2*fabs(stry) < MIN(fabs(spre), 3*fabs(sbis) - delta).
BrentqShort[b \in Brent, sbis \in Float, delta \in Float, stry \in Float] ==
  Lt[Mul[TWO, Fabs[stry]],
     FMin(Fabs[b.spre], Sub[Mul[THREE, Fabs[sbis]], delta])]

\* xcur += scur when fabs(scur) > delta, else one delta toward the bracket.
BrentqStep[scur \in Float, sbis \in Float, delta \in Float] ==
  IF Lt[delta, Fabs[scur]] THEN scur
  ELSE IF Lt[Zero(0), sbis] THEN delta ELSE Neg[delta]

BrentqApply[b \in Brent, spre, scur, sbis, delta \in Float] ==
  [b EXCEPT !.spre = spre, !.scur = scur, !.xpre = b.xcur, !.fpre = b.fcur,
            !.xcur = Add[b.xcur, BrentqStep[scur, sbis, delta]]]

BrentqTake[b \in Brent, sbis, delta, stry \in Float] ==
  IF BrentqShort[b, sbis, delta, stry]
  THEN BrentqApply[b, b.scur, stry, sbis, delta]
  ELSE BrentqApply[b, sbis, sbis, sbis, delta]

BrentqChoose[b \in Brent, sbis \in Float, delta \in Float] ==
  IF BrentqInterpolates[b, delta]
  THEN BrentqTake[b, sbis, delta, BrentqTrial[b]]
  ELSE BrentqApply[b, sbis, sbis, sbis, delta]

\* Brent's loop, second part: choose the step (the trial step if it is short
\* enough, bisection otherwise) and move xcur.
BrentqMove[b \in Brent] == BrentqChoose[b, Sbis[b], Delta[b]]

\* The test after the two endpoint evaluations:
\* signbit(fpre) == signbit(fcur), which raises ValueError.
SameSign(fa, fb) == fa.s = fb.s

\* for (i = 0; i < iter; i++): the loop runs while fewer than maxiter
\* iterations are done; leaving it this way raises RuntimeError.
LoopContinues(i) == i < MaxIter

\* ------------------------------------------------------------ the program
\* 365.0, the days of a year (T = T_days/365.0).
DaysPerYear == 365

\* Inputs enumerated.  float() parses any decimal, and "nan"; the latter is
\* enumerated for the volatility.
MaxSpotIdx == 3

MaxMktIdx == 4

Spots == {FromInt[50 * i] : i \in -1..MaxSpotIdx}

Strikes == {FromInt[0], FromInt[50], FromInt[100]}

Days == {FromInt[0], FromInt[DaysPerYear]}

\* (r, q): 0 and 0, 0.05 and 0.03.
CarryRates ==
  {[r |-> Zero(0), q |-> Zero(0)], [r |-> Dec(5, 2), q |-> Dec(3, 2)]}

Vols == {Zero(0), Dec(2, 1), NaN}

\* mkt_price: None when the line is blank.
NoPrice == [some |-> FALSE, v |-> Zero(0)]

SomePrice(x) == [some |-> TRUE, v |-> x]

MktPrices == {NoPrice} \cup {SomePrice(FromInt[25 * i]) : i \in 1..MaxMktIdx}

VARIABLES
  pc,     \* where the script is
  inp,    \* S, K, T_days, r, vol, q, mkt_price as read
  T,      \* T_days/365.0
  gr,     \* the tuple greeks returned
  iv_c,   \* implied_vol(..., "call")
  iv_p,   \* implied_vol(..., "put")
  out,    \* the value lines printed
  exit,   \* the exit status; -1 while running
  sv,     \* the frame of the running implied_vol call
  calls,  \* how often each function was entered
  ret,    \* the frame each side's implied_vol call returned from
  fn      \* arguments and results of the function-level runs

vars == <<pc, inp, T, gr, iv_c, iv_p, out, exit, sv, calls, ret, fn>>

NoInput ==
  [S |-> Zero(0), K |-> Zero(0), T_days |-> Zero(0), r |-> Zero(0),
   vol |-> Zero(0), q |-> Zero(0), mkt |-> NoPrice]

\* brentq's locals before the call.
NoBrent ==
  [xpre |-> Zero(0), xcur |-> Zero(0), xblk |-> Zero(0), fpre |-> Zero(0),
   fcur |-> Zero(0), fblk |-> Zero(0), spre |-> Zero(0), scur |-> Zero(0)]

\* No call of implied_vol is running.
Idle ==
  [pc |-> "idle", price_mkt |-> Zero(0), S |-> Zero(0), K |-> Zero(0),
   T |-> Zero(0), r |-> Zero(0), q |-> Zero(0), opt_type |-> <<>>,
   intrinsic |-> Zero(0), b |-> NoBrent, iter |-> 0, funcalls |-> 0,
   entered |-> FALSE, status |-> "none", root |-> Zero(0), result |-> NaN,
   site |-> 0]

\* The frames of implied_vol: its arguments, its locals and brentq's, where
\* it is (pc), how brentq ended (status), the value returned (result) and the
\* line it was returned from (site).
Frame ==
  [pc : STRING, price_mkt : Float, S : Float, K : Float, T : Float,
   r : Float, q : Float, opt_type : Str, intrinsic : Float, b : Brent,
   iter : Nat, funcalls : Nat, entered : BOOLEAN, status : STRING,
   root : Float, result : Float, site : Nat]

\* The frame on entry to implied_vol(price_mkt, S, K, T, r, q, opt_type).
Enter(price_mkt, S, K, T_, r, q, opt_type) ==
  [Idle EXCEPT !.pc = "entry", !.price_mkt = price_mkt, !.S = S, !.K = K,
               !.T = T_, !.r = r, !.q = q, !.opt_type = opt_type]

\* f(sig) of the running call.
F(fr, sig) ==
  Objective[fr.price_mkt, fr.S, fr.K, fr.T, fr.r, fr.q, sig, fr.opt_type]

NoGreeks == [g \in GreekNames |-> Zero(0)]

NoFn ==
  [S |-> Zero(0), K |-> Zero(0), T |-> Zero(0), r |-> Zero(0),
   q |-> Zero(0), sigma0 |-> Zero(0), opt_type |-> <<>>, price |-> Zero(0),
   price_call |-> Zero(0), price_put |-> Zero(0), g |-> NoGreeks,
   side_price |-> FALSE, side_intrinsic |-> FALSE, iv |-> NaN]

NoCalls == [greeks |-> 0, bs_price |-> 0, implied_vol |-> 0, brentq |-> 0]

Init ==
  /\ pc = "input"
  /\ inp = NoInput
  /\ T = Zero(0)
  /\ gr = NoGreeks
  /\ iv_c = NaN
  /\ iv_p = NaN
  /\ out = <<>>
  /\ exit = -1
  /\ sv = Idle
  /\ calls = NoCalls
  /\ ret = [c |-> Idle, p |-> Idle]
  /\ fn = NoFn

\* --- the script
\* The seven prompts.
ReadInputs ==
  /\ pc = "input"
  /\ \E S \in Spots, K \in Strikes, Td \in Days, c \in CarryRates, vol \in Vols,
        m \in MktPrices :
       inp' = [S |-> S, K |-> K, T_days |-> Td, r |-> c.r, vol |-> vol,
               q |-> c.q, mkt |-> m]
  /\ pc' = "validate"
  /\ UNCHANGED <<T, gr, iv_c, iv_p, out, exit, sv, calls, ret, fn>>

\* The variables the prompts assign, in the order of the prompts.
Prompts == <<"S", "K", "T_days", "r", "vol", "q", "mkt">>

\* The variables after the first n prompts were answered as in i: the
\* others are not assigned.
Answered(i, n) ==
  [v \in DOMAIN NoInput |->
     IF \E k \in 1..n : Prompts[k] = v THEN i[v] ELSE NoInput[v]]

\* The text of prompt k is no number (or a required one is blank): the
\* prompts before it have assigned their variables, "Input error" is
\* printed, SystemExit(1).
InputError ==
  /\ pc = "input"
  /\ \E k \in DOMAIN Prompts, S \in Spots, K \in Strikes, Td \in Days,
        c \in CarryRates, vol \in Vols :
       inp' = Answered([S |-> S, K |-> K, T_days |-> Td, r |-> c.r,
                        vol |-> vol, q |-> c.q, mkt |-> NoPrice], k - 1)
  /\ pc' = "exit"
  /\ exit' = 1
  /\ UNCHANGED <<T, gr, iv_c, iv_p, out, sv, calls, ret, fn>>

\* x <= 0.
LeZero(x) == Le[x, Zero(0)]

\* if S<=0 or K<=0 or T_days<=0 or vol<=0.
Rejected(i) ==
  LeZero(i.S) \/ LeZero(i.K) \/ LeZero(i.T_days) \/ LeZero(i.vol)

\* "Inputs must be positive", SystemExit(1).
RejectInputs ==
  /\ pc = "validate"
  /\ Rejected(inp)
  /\ pc' = "exit"
  /\ exit' = 1
  /\ UNCHANGED <<inp, T, gr, iv_c, iv_p, out, sv, calls, ret, fn>>

\* T = T_days/365.0.
AcceptInputs ==
  /\ pc = "validate"
  /\ ~Rejected(inp)
  /\ T' = TrueDiv[inp.T_days, FromInt[DaysPerYear]]
  /\ pc' = "compute"
  /\ UNCHANGED <<inp, gr, iv_c, iv_p, out, exit, sv, calls, ret, fn>>

\* (C, P, d1, d2, ...) = greeks(S, K, T, r, q, vol).
Compute ==
  /\ pc = "compute"
  /\ gr' = greeks[inp.S, inp.K, T, inp.r, inp.q, inp.vol]
  /\ calls' = [calls EXCEPT !.greeks = @ + 1]
  /\ pc' = "report"
  /\ UNCHANGED <<inp, T, iv_c, iv_p, out, exit, sv, ret, fn>>

\* |x| * 10^d rounded to an integer, ties to even, for x = m * 2^e.
RoundDec[m \in Limbs, e \in Int, d \in Nat] ==
  IF e >= 0 THEN ShiftLeft[NatMul[m, NatOfInt[10 ^ d]], e]
  ELSE RoundCut[NatMul[m, NatOfInt[10 ^ d]], -e, FALSE]

\* f"{x:,.df}": the sign and the digits printed (n is the number they
\* spell without the point); a NaN prints as "nan", an infinity as "inf".
Rounded[x \in Float, d \in Nat] ==
  IF x.k = "fin" THEN [k |-> "fin", s |-> x.s, n |-> RoundDec[x.m, x.e, d]]
  ELSE [k |-> x.k, s |-> x.s, n |-> <<>>]

\* f4, f6 and money: four, six and two decimals.
f4(x) == Rounded[x, 4]

f6(x) == Rounded[x, 6]

money(x) == Rounded[x, 2]

\* A printed line: its label and the values on it.
Line(label, values) == [label |-> label, values |-> values]

\* The RESULTS and GREEKS sections.
ReportLines(g) ==
  <<Line("Moneyness factor (d1)", <<f4(g.d1)>>),
    Line("Risk-adjusted moneyness (d2)", <<f4(g.d2)>>),
    Line("Call Price", <<money(g.call)>>),
    Line("Put Price", <<money(g.put)>>),
    Line("Delta", <<f4(g.delta_c), f4(g.delta_p)>>),
    Line("Gamma", <<f6(g.gamma)>>),
    Line("Vega", <<f4(g.vega)>>),
    Line("Theta", <<f4(g.theta_c), f4(g.theta_p)>>),
    Line("Rho", <<f4(g.rho_c), f4(g.rho_p)>>)>>

\* if mkt_price is not None.
AfterReport(mkt) == IF mkt.some THEN "iv_call" ELSE "finish"

Report ==
  /\ pc = "report"
  /\ out' = out \o ReportLines(gr)
  /\ pc' = AfterReport(inp.mkt)
  /\ UNCHANGED <<inp, T, gr, iv_c, iv_p, exit, sv, calls, ret, fn>>

\* The arguments of the two calls: (mkt_price, S, K, T, r, q, side).
SideCall(i, T_, side) == Enter(i.mkt.v, i.S, i.K, T_, i.r, i.q, side)

\* iv_c = implied_vol(mkt_price, S, K, T, r, q, "call"): the call.
CallSide ==
  /\ pc = "iv_call"
  /\ sv' = SideCall(inp, T, CallStr)
  /\ calls' = [calls EXCEPT !.implied_vol = @ + 1]
  /\ pc' = "iv_call_wait"
  /\ UNCHANGED <<inp, T, gr, iv_c, iv_p, out, exit, ret, fn>>

\* A script that gives up on the put side once the call side failed.
AfterCallSide_SkipPut(iv) == IF IsNan(iv) THEN "iv_print" ELSE "iv_put"

\* The statement after iv_c is assigned: the put side, whatever iv_c is.
AfterCallSide(iv) == "iv_put"

\* iv_c = ...: the return.
CallSideReturns ==
  /\ pc = "iv_call_wait"
  /\ sv.pc = "ret"
  /\ iv_c' = sv.result
  /\ ret' = [ret EXCEPT !.c = sv]
  /\ sv' = Idle
  /\ pc' = AfterCallSide(sv.result)
  /\ UNCHANGED <<inp, T, gr, iv_p, out, exit, calls, fn>>

\* iv_p = implied_vol(mkt_price, S, K, T, r, q, "put"): the call.
PutSide ==
  /\ pc = "iv_put"
  /\ sv' = SideCall(inp, T, PutStr)
  /\ calls' = [calls EXCEPT !.implied_vol = @ + 1]
  /\ pc' = "iv_put_wait"
  /\ UNCHANGED <<inp, T, gr, iv_c, iv_p, out, exit, ret, fn>>

\* iv_p = ...: the return.
PutSideReturns ==
  /\ pc = "iv_put_wait"
  /\ sv.pc = "ret"
  /\ iv_p' = sv.result
  /\ ret' = [ret EXCEPT !.p = sv]
  /\ sv' = Idle
  /\ pc' = "iv_print"
  /\ UNCHANGED <<inp, T, gr, iv_c, out, exit, calls, fn>>

\* f"{iv*100:,.2f}%" when not math.isnan(iv), "NaN" otherwise.
IvText(iv) ==
  IF IsNan(iv) THEN Rounded[NaN, 2]
  ELSE Rounded[Mul[iv, FromInt[100]], 2]

\* The IMPLIED VOLATILITY section.
PrintIv ==
  /\ pc = "iv_print"
  /\ out' = out \o <<Line("Market Price", <<money(inp.mkt.v)>>),
                     Line("IV (Call)", <<IvText(iv_c)>>),
                     Line("IV (Put)", <<IvText(iv_p)>>)>>
  /\ pc' = "finish"
  /\ UNCHANGED <<inp, T, gr, iv_c, iv_p, exit, sv, calls, ret, fn>>

\* "Done.": the script ends, exit status 0.
Finish ==
  /\ pc = "finish"
  /\ pc' = "done"
  /\ exit' = 0
  /\ UNCHANGED <<inp, T, gr, iv_c, iv_p, out, sv, calls, ret, fn>>

\* --- implied_vol
\* A guard that computes the bound and searches all the same.
AfterGuard_Always(below) == "brentq"

\* Where implied_vol goes after the guard: return float("nan"), or on to
\* brentq.
AfterGuard(below) == IF below THEN "ret" ELSE "brentq"

\* The frame after the guard, which sends the call to next.
Guarded(fr, intrinsic, next) ==
  [fr EXCEPT !.intrinsic = intrinsic, !.pc = next, !.result = NaN,
             !.site = IF next = "ret" THEN 83 ELSE 0]

\* if price_mkt < intrinsic: return float("nan").
GuardedBy[fr \in Frame, intrinsic \in Float] ==
  Guarded(fr, intrinsic, AfterGuard(BelowIntrinsic(fr.price_mkt, intrinsic)))

\* disc_r, disc_q, intrinsic, and the guard.
IvGuard ==
  /\ sv.pc = "entry"
  /\ sv' = GuardedBy[sv, Intrinsic[sv.S, sv.K, sv.T, sv.r, sv.q,
                                   sv.opt_type]]
  /\ UNCHANGED <<pc, inp, T, gr, iv_c, iv_p, out, exit, calls, ret, fn>>

\* brentq before its loop: a NaN value of f raises ValueError, a zero at an
\* end of the bracket is the root (xpre first), equal signs raise
\* ValueError.
EndpointStatus(fa, fb) ==
  IF IsNan(fa) \/ IsNan(fb) THEN "nanerr"
  ELSE IF IsZero(fa) \/ IsZero(fb) THEN "converged"
  ELSE IF SameSign(fa, fb) THEN "signerr"
  ELSE "running"

\* The frame after f was evaluated at both ends of the bracket.
Entered[fr \in Frame, fa \in Float, fb \in Float] ==
  [fr EXCEPT
     !.b = [NoBrent EXCEPT !.xpre = SigmaLo, !.xcur = SigmaHi,
                           !.fpre = fa, !.fcur = fb],
     !.funcalls = IF IsNan(fa) THEN 1 ELSE 2,
     !.entered = TRUE,
     !.status = EndpointStatus(fa, fb),
     !.root = IF IsZero(fa) THEN SigmaLo ELSE SigmaHi,
     !.pc = IF EndpointStatus(fa, fb) = "running" THEN "loop"
            ELSE "brentq_done"]

\* f at each of xs.
FAll(fr, xs) == [i \in DOMAIN xs |-> F(fr, xs[i])]

EnteredWith[fr \in Frame, f \in FloatSeq] == Entered[fr, f[1], f[2]]

\* brentq up to its loop: f at both ends of the bracket, the zero tests and
\* the sign test.
BrentqEnter ==
  /\ sv.pc = "brentq"
  /\ sv' = EnteredWith[sv, FAll(sv, <<SigmaLo, SigmaHi>>)]
  /\ calls' = [calls EXCEPT !.brentq = @ + 1,
                            !.bs_price = @ + sv'.funcalls]
  /\ UNCHANGED <<pc, inp, T, gr, iv_c, iv_p, out, exit, ret, fn>>

\* The loop is left with the iterations used up: RuntimeError.
PassExhausted(fr) == [fr EXCEPT !.status = "converr", !.pc = "brentq_done"]

\* The loop is left with the root xcur.
PassConverged(fr, b) ==
  [fr EXCEPT !.b = b, !.iter = @ + 1, !.status = "converged",
             !.root = b.xcur, !.pc = "brentq_done"]

\* fcur = f(xcur): a NaN raises ValueError.
PassEvaluated[fr \in Frame, m \in Brent, fx \in Float] ==
  IF IsNan(fx)
  THEN [fr EXCEPT !.b = [m EXCEPT !.fcur = fx], !.iter = @ + 1,
                  !.funcalls = @ + 1, !.status = "nanerr",
                  !.pc = "brentq_done"]
  ELSE [fr EXCEPT !.b = [m EXCEPT !.fcur = fx], !.iter = @ + 1,
                  !.funcalls = @ + 1]

\* The pass moved xcur: one more evaluation of f.
PassMoved[fr \in Frame, m \in Brent] == PassEvaluated[fr, m, F(fr, m.xcur)]

\* One pass of the loop on the bracket b.
PassOn[fr \in Frame, b \in Brent] ==
  IF BrentqConverged(b) THEN PassConverged(fr, b)
  ELSE PassMoved[fr, BrentqMove[b]]

BrentqPass[fr \in Frame] ==
  IF ~LoopContinues(fr.iter) THEN PassExhausted(fr)
  ELSE PassOn[fr, BrentqBracket[fr.b]]

\* One pass of brentq's loop, or its end after maxiter passes.
BrentqIterate ==
  /\ sv.pc = "loop"
  /\ sv' = BrentqPass[sv]
  /\ calls' = [calls EXCEPT !.bs_price = @ + (sv'.funcalls - sv.funcalls)]
  /\ UNCHANGED <<pc, inp, T, gr, iv_c, iv_p, out, exit, ret, fn>>

\* A handler that returns the last iterate.
Caught_LastIterate(fr) == fr.b.xcur

\* What the handler returns: float("nan").
Caught(fr) == NaN

\* try: return brentq(...); except Exception: return float("nan").  brentq
\* raises ValueError for the signs and for a NaN, RuntimeError for the
\* iterations.
Returned(fr) ==
  IF fr.status = "converged"
  THEN [fr EXCEPT !.result = fr.root, !.site = 86, !.pc = "ret"]
  ELSE [fr EXCEPT !.result = Caught(fr), !.site = 88, !.pc = "ret"]

IvReturn ==
  /\ sv.pc = "brentq_done"
  /\ sv' = Returned(sv)
  /\ UNCHANGED <<pc, inp, T, gr, iv_c, iv_p, out, exit, calls, ret, fn>>

ImpliedVolStep ==
  \/ IvGuard
  \/ BrentqEnter
  \/ BrentqIterate
  \/ IvReturn

Next ==
  \/ ReadInputs
  \/ InputError
  \/ RejectInputs
  \/ AcceptInputs
  \/ Compute
  \/ Report
  \/ CallSide
  \/ CallSideReturns
  \/ PutSide
  \/ PutSideReturns
  \/ PrintIv
  \/ Finish
  \/ ImpliedVolStep

Spec == Init /\ [][Next]_vars

\* The script runs on: a statement that can execute does.
FairSpec == Spec /\ WF_vars(Next)

\* --- the functions on their own
\* Longest opt_type enumerated besides "call" and "put".
MaxLen == 2

\* Characters of the enumerated opt_type strings: "C" and "c", an upper-case
\* and a lower-case letter that are neither, and the character whose lower
\* case is two characters long.
Alphabet == {"C", "c", "P", "a", "U+0130"}

OptTypes == {CallStr, PutStr} \cup UNION {[1..n -> Alphabet] : n \in 1..MaxLen}

FnSpots == {FromInt[100]}

\* K: 50, 100 and 100.0000001, whose discounted value all but cancels that
\* of S = 100 when r = q.
FnStrikes == {FromInt[50], FromInt[100], Dec(1000000001, 7)}

\* sigma0: the ends of [0.01, 3.0] and 0.2.
FnSigmas == {Dec(1, 2), Dec(2, 1), FromInt[3]}

\* The arguments of the function-level runs: every (S, K, r, q, sigma0) with
\* "call" and with "put", and every enumerated opt_type with S = K = 100,
\* r = 0.05, q = 0.03 and sigma0 = 0.2.
FnArgs ==
  [S : FnSpots, K : FnStrikes, c : CarryRates, sigma0 : FnSigmas,
   opt_type : {CallStr, PutStr}]
    \cup [S : {FromInt[100]}, K : {FromInt[100]},
          c : {[r |-> Dec(5, 2), q |-> Dec(3, 2)]}, sigma0 : {Dec(2, 1)},
          opt_type : OptTypes]

InitFn ==
  /\ pc = "fn_price"
  /\ inp = NoInput
  /\ T = Zero(0)
  /\ gr = NoGreeks
  /\ iv_c = NaN
  /\ iv_p = NaN
  /\ out = <<>>
  /\ exit = -1
  /\ sv = Idle
  /\ calls = NoCalls
  /\ ret = [c |-> Idle, p |-> Idle]
  /\ \E a \in FnArgs :
       fn = [NoFn EXCEPT !.S = a.S, !.K = a.K, !.T = ONE, !.r = a.c.r,
                         !.q = a.c.q, !.sigma0 = a.sigma0,
                         !.opt_type = a.opt_type]

\* bs_price for opt_type, "call" and "put", and greeks, on the same
\* arguments; the side each of bs_price and implied_vol reads off opt_type.
PricesOf(f, types) ==
  [i \in DOMAIN types |->
     bs_price[f.S, f.K, f.T, f.r, f.q, f.sigma0, types[i]]]

PricedWith(f, P, g) ==
  [f EXCEPT
     !.price = P[1],
     !.price_call = P[2],
     !.price_put = P[3],
     !.g = g,
     !.side_price = PriceSideIsCall(f.opt_type),
     !.side_intrinsic = IntrinsicSideIsCall(f.opt_type)]

Priced(f) ==
  PricedWith(f, PricesOf(f, <<f.opt_type, CallStr, PutStr>>),
             greeks[f.S, f.K, f.T, f.r, f.q, f.sigma0])

FnPrice ==
  /\ pc = "fn_price"
  /\ fn' = Priced(fn)
  /\ calls' = [calls EXCEPT !.bs_price = @ + 3, !.greeks = @ + 1]
  /\ pc' = "fn_invert"
  /\ UNCHANGED <<inp, T, gr, iv_c, iv_p, out, exit, sv, ret>>

\* implied_vol(bs_price(S, K, T, r, q, sigma0, type), S, K, T, r, q, type):
\* the call.
FnInvert ==
  /\ pc = "fn_invert"
  /\ sv' = Enter(fn.price, fn.S, fn.K, fn.T, fn.r, fn.q, fn.opt_type)
  /\ calls' = [calls EXCEPT !.implied_vol = @ + 1]
  /\ pc' = "fn_wait"
  /\ UNCHANGED <<inp, T, gr, iv_c, iv_p, out, exit, ret, fn>>

\* ... and its return.
FnReturn ==
  /\ pc = "fn_wait"
  /\ sv.pc = "ret"
  /\ fn' = [fn EXCEPT !.iv = sv.result]
  /\ ret' = [ret EXCEPT !.c = sv]
  /\ sv' = Idle
  /\ pc' = "fn_done"
  /\ UNCHANGED <<inp, T, gr, iv_c, iv_p, out, exit, calls>>

NextFn ==
  \/ FnPrice
  \/ FnInvert
  \/ FnReturn
  \/ ImpliedVolStep

SpecFn == InitFn /\ [][NextFn]_vars

\* ------------------------------------------------------------- properties
\* C1: a call of implied_vol whose price_mkt is strictly below the discounted
\* intrinsic value (max(0, S e^-qT - K e^-rT) for a call, max(0, K e^-rT -
\* S e^-qT) for a put) returns NaN from the guard: brentq is never entered
\* and f (bs_price) is never evaluated.
C1_BelowIntrinsicFails ==
  (/\ sv.pc \in {"brentq", "loop", "brentq_done", "ret"}
   /\ Lt[sv.price_mkt,
         IF Head(sv.opt_type) \in {"c", "C"}
         THEN Max0[Sub[Mul[sv.S, math_exp[Mul[Neg[sv.q], sv.T]]],
                       Mul[sv.K, math_exp[Mul[Neg[sv.r], sv.T]]]]]
         ELSE Max0[Sub[Mul[sv.K, math_exp[Mul[Neg[sv.r], sv.T]]],
                       Mul[sv.S, math_exp[Mul[Neg[sv.q], sv.T]]]]]])
  => /\ sv.pc = "ret"
     /\ IsNan(sv.result)
     /\ sv.site = 83
     /\ ~sv.entered
     /\ sv.funcalls = 0

\* A call returned from the guard with a positive price below the bound.
C1_Witness ==
  /\ sv.pc = "ret"
  /\ sv.site = 83
  /\ Lt[Zero(0), sv.price_mkt]
  /\ Lt[sv.price_mkt, sv.intrinsic]
  /\ sv.funcalls = 0

\* C2: the outcome of implied_vol tells the two kinds of failure apart: when
\* one side of a run fails at the guard (below intrinsic) and the other fails
\* in brentq (no bracket, or the iterations used up), the two values returned,
\* and the two lines printed for them, differ.
C2_FailuresDistinct ==
  (/\ pc = "done"
   /\ inp.mkt.some
   /\ {ret.c.site, ret.p.site} = {83, 88})
  => /\ iv_c # iv_p
     /\ out[Len(out) - 1].values # out[Len(out)].values

\* C3: when the price is not below the intrinsic value and f has the same
\* sign at both ends of the bracket, or brentq used up its iterations,
\* implied_vol returns NaN from the handler, never a volatility.
C3_NoBracketFails ==
  (/\ sv.pc = "ret"
   /\ sv.entered
   /\ \/ /\ sv.iter = 0
         /\ \/ Lt[Zero(0), sv.b.fpre] /\ Lt[Zero(0), sv.b.fcur]
            \/ Lt[sv.b.fpre, Zero(0)] /\ Lt[sv.b.fcur, Zero(0)]
      \/ sv.status = "converr")
  => /\ IsNan(sv.result)
     /\ sv.site = 88

\* A call returned after brentq found f negative at both ends.
C3_Witness ==
  /\ sv.pc = "ret"
  /\ sv.entered
  /\ sv.iter = 0
  /\ Lt[sv.b.fpre, Zero(0)]
  /\ Lt[sv.b.fcur, Zero(0)]
  /\ ~Lt[sv.price_mkt, sv.intrinsic]

\* C4: every volatility implied_vol returns lies strictly inside the bracket
\* (1e-6, 5.0): an end of the bracket is never returned.
C4_StrictlyInside ==
  (sv.pc = "ret" /\ ~IsNan(sv.result))
  => (Lt[SigmaLo, sv.result] /\ Lt[sv.result, SigmaHi])

\* C5: a non-positive S, K, T_days or vol ends the run with status 1 before
\* greeks, bs_price or implied_vol is called and before any result is
\* printed; and greeks and implied_vol are only called with S > 0, K > 0,
\* T > 0 and vol > 0.
C5_ValidatedFirst ==
  /\ (/\ pc \notin {"input", "validate"}
      /\ \/ Le[inp.S, Zero(0)]
         \/ Le[inp.K, Zero(0)]
         \/ Le[inp.T_days, Zero(0)]
         \/ Le[inp.vol, Zero(0)])
     => (exit = 1 /\ calls = NoCalls /\ out = <<>>)
  /\ (calls.greeks > 0 \/ calls.implied_vol > 0)
     => /\ Lt[Zero(0), inp.S]
        /\ Lt[Zero(0), inp.K]
        /\ Lt[Zero(0), T]
        /\ Lt[Zero(0), inp.vol]

\* C6: for sigma0 in [0.01, 3.0] and either option type,
\* implied_vol(bs_price(S, K, T, r, q, sigma0, type), S, K, T, r, q, type)
\* is a volatility, and it is within 1e-6 of sigma0.
C6_RoundTrip ==
  (/\ pc = "fn_done"
   /\ fn.opt_type \in {CallStr, PutStr}
   /\ Le[Dec(1, 2), fn.sigma0]
   /\ Le[fn.sigma0, FromInt[3]])
  => /\ ~IsNan(fn.iv)
     /\ Le[Fabs[Sub[fn.iv, fn.sigma0]], Dec(1, 6)]

\* S e^-qT, K e^-rT and their difference, the right-hand side of put-call
\* parity.
DiscountedSpot(f) == Mul[f.S, math_exp[Mul[Neg[f.q], f.T]]]

DiscountedStrike(f) == Mul[f.K, math_exp[Mul[Neg[f.r], f.T]]]

FMax(x, y) == IF Lt[x, y] THEN y ELSE x

\* x is the parity value of f up to 1e-9 of the larger discounted amount.
ParityHolds(x, f) ==
  Le[Fabs[Sub[x, Sub[DiscountedSpot(f), DiscountedStrike(f)]]],
     Mul[Dec(1, 9), FMax(DiscountedSpot(f), DiscountedStrike(f))]]

\* x is the parity value of f up to 1e-9 of the parity value itself.
ParityRelative(x, f) ==
  Le[Fabs[Sub[x, Sub[DiscountedSpot(f), DiscountedStrike(f)]]],
     Mul[Dec(1, 9), Fabs[Sub[DiscountedSpot(f), DiscountedStrike(f)]]]]

\* C7 as stated: bs_price(..., "call") - bs_price(..., "put") is
\* S e^-qT - K e^-rT up to 1e-9 of that value, and so is the difference of the
\* call and put values of greeks.
C7_ParityRelative ==
  pc = "fn_invert"
  => /\ ParityRelative(Sub[fn.price_call, fn.price_put], fn)
     /\ ParityRelative(Sub[fn.g.call, fn.g.put], fn)

\* C7: put-call parity.  bs_price(..., "call") - bs_price(..., "put") is
\* S e^-qT - K e^-rT, and so is the difference of the call and put values of
\* greeks, up to 1e-9 relative to the larger of the two discounted amounts
\* S e^-qT and K e^-rT.
C7_PutCallParity ==
  pc = "fn_invert"
  => /\ ParityHolds(Sub[fn.price_call, fn.price_put], fn)
     /\ ParityHolds(Sub[fn.g.call, fn.g.put], fn)

\* A call and a put whose discounted amounts nearly cancel, priced: the
\* difference of the prices is not the parity value to the last bit, and the
\* parity value is below 1e-8 of either amount.
C7_Witness ==
  /\ pc = "fn_invert"
  /\ Lt[DiscountedSpot(fn), DiscountedStrike(fn)]
  /\ Lt[Sub[DiscountedStrike(fn), DiscountedSpot(fn)],
        Mul[Dec(1, 8), DiscountedSpot(fn)]]
  /\ Sub[fn.price_call, fn.price_put]
       # Sub[DiscountedSpot(fn), DiscountedStrike(fn)]
  /\ Lt[Zero(0), fn.price_put]
  /\ fn.g.call = fn.price_call

\* C8: with a market price, implied_vol is called once for each side on the
\* same (mkt_price, S, K, T, r, q); whatever the call side returned, the put
\* side is computed from those arguments alone, iv_c stays what the call side
\* returned, and both lines are printed.
C8_SidesIndependent ==
  /\ pc = "iv_put_wait"
     => /\ iv_c = ret.c.result
        /\ calls.implied_vol = 2
        /\ sv.pc # "idle"
        /\ sv.opt_type = PutStr
        /\ <<sv.price_mkt, sv.S, sv.K, sv.T, sv.r, sv.q>>
             = <<inp.mkt.v, inp.S, inp.K, T, inp.r, inp.q>>
  /\ (pc = "iv_print" \/ (pc \in {"finish", "done"} /\ inp.mkt.some))
     => /\ calls.implied_vol = 2
        /\ ret.c.pc = "ret"
        /\ ret.p.pc = "ret"
        /\ ret.c.opt_type = CallStr
        /\ ret.p.opt_type = PutStr
        /\ <<ret.c.price_mkt, ret.c.S, ret.c.K, ret.c.T, ret.c.r, ret.c.q>>
             = <<inp.mkt.v, inp.S, inp.K, T, inp.r, inp.q>>
        /\ <<ret.p.price_mkt, ret.p.S, ret.p.K, ret.p.T, ret.p.r, ret.p.q>>
             = <<inp.mkt.v, inp.S, inp.K, T, inp.r, inp.q>>
        /\ iv_c = ret.c.result
        /\ iv_p = ret.p.result
  /\ (pc \in {"finish", "done"} /\ inp.mkt.some)
     => /\ Len(out) = 12
        /\ out[11] = Line("IV (Call)", <<IvText(iv_c)>>)
        /\ out[12] = Line("IV (Put)", <<IvText(iv_p)>>)

\* A run whose call side failed and whose put side returned a volatility.
C8_Witness ==
  /\ pc = "done"
  /\ inp.mkt.some
  /\ IsNan(iv_c)
  /\ ~IsNan(iv_p)
  /\ ret.p.iter > 0

\* C9: every call of implied_vol returns; brentq's loop makes at most maxiter
\* = 200 passes, one after the other, and nothing is searched once the guard
\* has fired.
C9_Terminates ==
  /\ [](/\ sv.iter <= MaxIter
        /\ sv.funcalls <= sv.iter + 2
        /\ (sv.pc \notin {"idle", "entry"} /\ Lt[sv.price_mkt, sv.intrinsic])
           => (sv.pc = "ret" /\ ~sv.entered /\ sv.iter = 0
               /\ sv.funcalls = 0))
  /\ [][(sv.pc = "loop" /\ sv.iter < MaxIter) => sv'.iter = sv.iter + 1]_sv
  /\ (sv.pc = "entry") ~> (sv.pc = "ret")

\* A call that returned after ten or more passes of the loop.
C9_Witness ==
  /\ sv.pc = "ret"
  /\ sv.entered
  /\ sv.iter >= 10
  /\ sv.funcalls = sv.iter + 1

\* C10: the call and put values greeks returns are bs_price(..., "call") and
\* bs_price(..., "put") on the same arguments, and for a non-empty opt_type
\* the side implied_vol takes for the intrinsic value is the side bs_price
\* takes for the price.
C10_PathsAgree ==
  /\ pc \in {"fn_invert", "fn_wait", "fn_done"}
     => /\ fn.g.call = fn.price_call
        /\ fn.g.put = fn.price_put
        /\ fn.side_price = fn.side_intrinsic
        /\ fn.price = IF fn.side_intrinsic THEN fn.price_call
                      ELSE fn.price_put
  /\ sv.pc \in {"brentq", "ret"}
     => sv.intrinsic =
          IF PriceSideIsCall(sv.opt_type)
          THEN Max0[Sub[Mul[sv.S, math_exp[Mul[Neg[sv.q], sv.T]]],
                        Mul[sv.K, math_exp[Mul[Neg[sv.r], sv.T]]]]]
          ELSE Max0[Sub[Mul[sv.K, math_exp[Mul[Neg[sv.r], sv.T]]],
                        Mul[sv.S, math_exp[Mul[Neg[sv.q], sv.T]]]]]

\* An upper-case call ("C" and "P": lower-cased, "cp") priced and inverted
\* as a call.
C10_Witness ==
  /\ pc = "fn_done"
  /\ fn.opt_type = <<"C", "P">>
  /\ Lower(fn.opt_type) = <<"c", "p">>
  /\ fn.side_price
  /\ fn.price = fn.g.call
  /\ fn.price # fn.g.put

====
